---- MODULE Spec2Model ----
(***************************************************************************)
(* Cast Sync: the horizontal sync engine (libs/cast-sync/cast_sync/hsync.py)*)
(* as a state machine.  Vaults hold notes (path, cast-id, content), every   *)
(* vault has a baseline store on disk (syncstate.json), and a sync          *)
(* invocation is a process that plans, executes its plans one by one,       *)
(* saves its store and cascades into its peers.                             *)
(***************************************************************************)
EXTENDS Integers, Sequences, FiniteSets, TLC

VARIABLES
    registry,   \* names of the vaults installed in the machine registry
    files,      \* files[v]: the notes of vault v, records [path, id, body]
    store,      \* store[v][<<id, peer>>]: digest in v's syncstate.json, 0 = no entry
    pc,         \* pc[q]: position of sync invocation q
    opts,       \* opts[q]: arguments of HorizontalSync.sync
    run,        \* run[q]: the core run in progress (root, in-memory syncstate, plans, ...)
    stack,      \* stack[q]: cascade frames of the enclosing sync() calls
    visited,    \* visited[q]: visited_roots of the invocation
    last,       \* last[q]: what the last executed plan did (history)
    hist,       \* invocations since the last user edit (history)
    cfg,        \* the scenario: the invocations in scope, what is recorded, the stores' key order
    lock,       \* lock[v]: the process holding the lock of vault v, "" when free
    cli,        \* cli[q]: exit status of the last `cast hsync` command of q, and its cause
    calls,      \* calls[q]: the core runs of the invocation and what sync() returned (history)
    casts,      \* casts[id]: the entry of registry.json under cast-id id, NoEntry when absent
    rn,         \* the vault, the arguments and the reports of the link rewriter
    fm          \* a front-matter map and what reorder_cast_fields made of it

vars ==
    <<registry, files, store, pc, opts, run, stack, visited, last, hist, cfg, lock, cli, calls,
      casts, rn, fm>>

----------------------------------------------------------------------------
(* Universe and bounds *)

Vaults == {"A", "B", "C"}

\* the peers of a vault are iterated in this order where the code iterates a dict
VaultSeq == <<"A", "B", "C">>

Ids == {"x", "y"}

BasePaths == {"p", "q"}

\* a vault scan lists the relpaths in this order (the names are interchangeable)
PathSeq == <<"p", "q">>

Procs == {"p1", "p2"}

\* note contents are 1..MaxBody; the digest of a note is its content
MaxBody == 2

\* largest counter _safe_dest may append, and how often a name may be suffixed
MaxCount == 2

MaxNest == 1

\* the user makes at most this many changes to the vaults
MaxEdits == 3

\* repeated invocations without a user edit in between are counted up to here
MaxStreak == 3

\* most note files the user has put in the vaults before the first run
MaxNotes == 4

\* most invocations since the last user edit, where a specification bounds them
MaxRuns == 1

\* the digest "" a deletion-pass plan carries as local_digest
BlankDigest == -1

\* cast-vaults of the note with cast-id `id`, in header order
Decl(id) ==
    IF id = "x"
    THEN << <<"A", "live">>, <<"B", "live">>, <<"C", "live">> >>
    ELSE << <<"A", "live">>, <<"B", "watch">>, <<"C", "live">> >>

DeclNames(id) == {Decl(id)[j][1] : j \in 1..Len(Decl(id))}

\* mode of peer `name` in the header of note `id` ("none" when not declared)
ModeOf(id, name) ==
    IF name \in DeclNames(id)
    THEN LET j == CHOOSE j \in 1..Len(Decl(id)) : Decl(id)[j][1] = name
         IN Decl(id)[j][2]
    ELSE "none"

----------------------------------------------------------------------------
(* Paths and files *)

NoPath == [base |-> "", sfx |-> <<>>]

Base(b) == [base |-> b, sfx |-> <<>>]

\* "<stem> <suffix><ext>" for k = 1 and "<stem> <suffix> k<ext>" for k >= 2
Suffixed(p, prov, k) == [base |-> p.base, sfx |-> Append(p.sfx, <<prov, k>>)]

NoFile == [path |-> NoPath, id |-> "", body |-> 0]

Exists(fs, p) == \E f \in fs : f.path = p

FileAt(fs, p) == IF Exists(fs, p) THEN CHOOSE f \in fs : f.path = p ELSE NoFile

\* HorizontalSync._read_cast_id: "" stands for None
ReadCastId(fs, p) == FileAt(fs, p).id

Digest(f) == f.body

NotesOf(fs, id) == {f \in fs : f.id = id}

\* the relpaths the wiki and markdown links of a note body resolve to: the
\* content MaxBody is a body with one link, to the relpath "p"
Links(body) == IF body = MaxBody THEN {Base("p")} ELSE {}

\* paths the model keeps within its bounds
PathOK(p) ==
    /\ Len(p.sfx) <= MaxNest
    /\ \A j \in 1..Len(p.sfx) : p.sfx[j][2] <= MaxCount

SafeDestOnce(fs, base, prov) ==
    IF ~Exists(fs, base) THEN base ELSE Suffixed(base, prov, 1)

\* HorizontalSync._safe_dest
SafeDest(fs, base, prov) ==
    IF ~Exists(fs, base)
    THEN base
    ELSE LET free == {k \in 1..(Cardinality(fs) + 1) : ~Exists(fs, Suffixed(base, prov, k))}
             k == CHOOSE k \in free : \A j \in free : k <= j
         IN Suffixed(base, prov, k)

\* shutil.copy2(src, dest) into the file set dfs; the source must exist
CopyInto(dfs, sf, dest) ==
    {f \in dfs : f.path # dest} \cup {[path |-> dest, id |-> sf.id, body |-> sf.body]}

\* _safe_copy without the cast-id check: the destination is overwritten
SafeCopyOverwrite(sfs, src, dfs, dest, prov) ==
    IF Exists(sfs, src)
    THEN [ok |-> TRUE, fs |-> CopyInto(dfs, FileAt(sfs, src), dest), dest |-> dest]
    ELSE [ok |-> FALSE, fs |-> dfs, dest |-> dest]

\* HorizontalSync._safe_copy: [ok, fs, dest]; ok = FALSE when copy2 raises
SafeCopy(sfs, src, dfs, dest, prov) ==
    LET existing_id == ReadCastId(dfs, dest)
        src_id == ReadCastId(sfs, src)
        final == IF Exists(dfs, dest) /\ existing_id # "" /\ src_id # ""
                    /\ existing_id # src_id
                 THEN SafeDest(dfs, dest, prov)
                 ELSE dest
    IN IF Exists(sfs, src)
       THEN [ok |-> TRUE, fs |-> CopyInto(dfs, FileAt(sfs, src), final), dest |-> final]
       ELSE [ok |-> FALSE, fs |-> dfs, dest |-> final]

\* HorizontalSync._safe_move within one vault: [ok, fs, dest]
SafeMove(fs, src, dest, prov) ==
    IF src = dest
    THEN [ok |-> TRUE, fs |-> fs, dest |-> dest]
    ELSE LET existing_id == ReadCastId(fs, dest)
             src_id == ReadCastId(fs, src)
         IN IF Exists(fs, dest) /\ existing_id # "" /\ src_id # ""
               /\ existing_id = src_id
            THEN [ok |-> TRUE, fs |-> {f \in fs : f.path # src}, dest |-> dest]
            ELSE LET final == IF Exists(fs, dest) THEN SafeDest(fs, dest, prov) ELSE dest
                 IN IF Exists(fs, src)
                    THEN [ok |-> TRUE,
                          fs |-> {f \in fs : f.path # src}
                                 \cup {[FileAt(fs, src) EXCEPT !.path = final]},
                          dest |-> final]
                    ELSE [ok |-> FALSE, fs |-> fs, dest |-> final]

\* Path.unlink(missing_ok=True)
Unlink(fs, p) == {f \in fs : f.path # p}

----------------------------------------------------------------------------
(* Baseline stores *)

Pairs == Ids \X Vaults

EmptyStore == [pr \in Pairs |-> 0]

\* HorizontalSync._update_baseline
UpdateBaseline(st, id, peer, d) == [st EXCEPT ![<<id, peer>>] = d]

\* the pop of (cast_id, peer_name) in _clear_baseline_both
ClearBaseline(st, id, peer) == [st EXCEPT ![<<id, peer>>] = 0]

\* the peer half of _update_baseline_both: load the peer's syncstate.json, set
\* the entry keyed by our name, save it
PeerStoreUpdate(sto, self, id, peer, d) ==
    [sto EXCEPT ![peer] = UpdateBaseline(@, id, self, d)]

PeerStoreClear(sto, self, id, peer) ==
    [sto EXCEPT ![peer] = ClearBaseline(@, id, self)]

----------------------------------------------------------------------------
(* Decision engine *)

\* _decide_sync with the peer mode ignored where only the local side changed
DecideSyncPushAlways(local, peer, b, mode) ==
    LET L == Digest(local)
        P == Digest(peer)
    IN IF peer = NoFile
       THEN IF b = 0
            THEN (IF mode = "live" THEN "CREATE_PEER" ELSE "NO_OP")
            ELSE (IF L = b THEN "DELETE_LOCAL" ELSE "CONFLICT")
       ELSE IF b = 0
            THEN IF L = P
                 THEN IF local.path # peer.path
                      THEN (IF mode = "live" THEN "RENAME_PEER" ELSE "RENAME_LOCAL")
                      ELSE "NO_OP"
                 ELSE "CONFLICT"
            ELSE IF L = b /\ P # b THEN "PULL"
                 ELSE IF P = b /\ L # b THEN "PUSH"
                 ELSE IF L # b /\ P # b /\ L # P THEN "CONFLICT"
                 ELSE IF local.path # peer.path
                      THEN (IF mode = "live" THEN "RENAME_PEER" ELSE "RENAME_LOCAL")
                      ELSE "NO_OP"

\* _decide_sync with a missing peer always a conflict once a baseline exists
DecideSyncNoDeleteLocal(local, peer, b, mode) ==
    LET L == Digest(local)
        P == Digest(peer)
    IN IF peer = NoFile
       THEN IF b = 0
            THEN (IF mode = "live" THEN "CREATE_PEER" ELSE "NO_OP")
            ELSE "CONFLICT"
       ELSE IF b = 0
            THEN IF L = P
                 THEN IF local.path # peer.path
                      THEN (IF mode = "live" THEN "RENAME_PEER" ELSE "RENAME_LOCAL")
                      ELSE "NO_OP"
                 ELSE "CONFLICT"
            ELSE IF L = b /\ P # b THEN "PULL"
                 ELSE IF P = b /\ L # b
                      THEN (IF mode = "live" THEN "PUSH" ELSE "NO_OP")
                 ELSE IF L # b /\ P # b /\ L # P THEN "CONFLICT"
                 ELSE IF local.path # peer.path
                      THEN (IF mode = "live" THEN "RENAME_PEER" ELSE "RENAME_LOCAL")
                      ELSE "NO_OP"

\* _decide_sync with no rename detection on first contact
DecideSyncFirstContactNoRename(local, peer, b, mode) ==
    LET L == Digest(local)
        P == Digest(peer)
    IN IF peer = NoFile
       THEN IF b = 0
            THEN (IF mode = "live" THEN "CREATE_PEER" ELSE "NO_OP")
            ELSE (IF L = b THEN "DELETE_LOCAL" ELSE "CONFLICT")
       ELSE IF b = 0
            THEN (IF L = P THEN "NO_OP" ELSE "CONFLICT")
            ELSE IF L = b /\ P # b THEN "PULL"
                 ELSE IF P = b /\ L # b
                      THEN (IF mode = "live" THEN "PUSH" ELSE "NO_OP")
                 ELSE IF L # b /\ P # b /\ L # P THEN "CONFLICT"
                 ELSE IF local.path # peer.path
                      THEN (IF mode = "live" THEN "RENAME_PEER" ELSE "RENAME_LOCAL")
                      ELSE "NO_OP"

\* HorizontalSync._decide_sync; peer = NoFile when peer_rec is None, b = 0
\* when there is no baseline
DecideSync(local, peer, b, mode) ==
    LET L == Digest(local)
        P == Digest(peer)
    IN IF peer = NoFile
       THEN IF b = 0
            THEN (IF mode = "live" THEN "CREATE_PEER" ELSE "NO_OP")
            ELSE (IF L = b THEN "DELETE_LOCAL" ELSE "CONFLICT")
       ELSE IF b = 0
            THEN IF L = P
                 THEN IF local.path # peer.path
                      THEN (IF mode = "live" THEN "RENAME_PEER" ELSE "RENAME_LOCAL")
                      ELSE "NO_OP"
                 ELSE "CONFLICT"
            ELSE IF L = b /\ P # b THEN "PULL"
                 ELSE IF P = b /\ L # b
                      THEN (IF mode = "live" THEN "PUSH" ELSE "NO_OP")
                 ELSE IF L # b /\ P # b /\ L # P THEN "CONFLICT"
                 ELSE IF local.path # peer.path
                      THEN (IF mode = "live" THEN "RENAME_PEER" ELSE "RENAME_LOCAL")
                      ELSE "NO_OP"

----------------------------------------------------------------------------
(* Ephemeral index and registry *)

\* _resolve_peer_vault_path / _index_peer: the peer is in the machine registry
Resolved(name) == name \in registry

\* the cast-ids of the configs; the config of vault v has cast-id VaultId(v),
\* cast-name v, and v names its root too
CastIds == {"idA", "idB", "idC"}

VaultId(v) == IF v = "A" THEN "idA" ELSE IF v = "B" THEN "idB" ELSE "idC"

NoEntry == [name |-> "", root |-> ""]

\* list_casts: the cast-ids that have an entry
Listed(cs) == {c \in CastIds : cs[c] # NoEntry}

\* the names resolve_cast_by_name finds
NamesOf(cs) == {cs[c].name : c \in Listed(cs)}

\* the registry after `cast install` in each vault of reg
Installed(reg) ==
    [c \in CastIds |->
        IF \E v \in reg : VaultId(v) = c
        THEN LET v == CHOOSE v \in reg : VaultId(v) = c IN [name |-> v, root |-> v]
        ELSE NoEntry]

IdsIn(fs) == {f.id : f \in fs}

\* the place of a relpath in the order in which a vault scan lists files
Rank(seq, e) == CHOOSE i \in 1..Len(seq) : seq[i] = e

\* the provenance suffixes _safe_dest is called with: a vault name or "LOCAL"
ProvSeq == VaultSeq \o <<"LOCAL">>

KeyRadix == Len(ProvSeq) * (MaxCount + 1) + 1

RECURSIVE SfxKey(_, _)
SfxKey(acc, sfx) ==
    IF sfx = <<>> THEN acc
    ELSE SfxKey(acc * KeyRadix + (Rank(ProvSeq, Head(sfx)[1]) - 1) * (MaxCount + 1)
                    + Head(sfx)[2],
                Tail(sfx))

ScanKey(p) == SfxKey(Rank(PathSeq, p.base), p.sfx)

\* by_id of a full scan of fs: one record per cast-id; with duplicate cast-ids
\* the record scanned first wins
ScanIndex(fs) ==
    {f \in fs : \A g \in fs : g.id = f.id => ScanKey(f.path) <= ScanKey(g.path)}

\* the cast-ids of by_id in insertion order, which is the scan order
RECURSIVE IdOrder(_)
IdOrder(ix) ==
    IF ix = {} THEN <<>>
    ELSE LET f == CHOOSE f \in ix : \A g \in ix : ScanKey(f.path) <= ScanKey(g.path)
         IN <<f.id>> \o IdOrder(ix \ {f})

\* build_ephemeral_index(..., limit_file=rel): the scan is restricted to the
\* one relpath
LimitedIndex(fs, rel) == {f \in fs : f.path = rel}

\* EphemeralIndex.add_file for each record: the earlier record wins by_id
AddFiles(ix, recs) == ix \cup {f \in recs : ~\E g \in ix : g.id = f.id}

\* EphemeralIndex.get_by_id
GetById(ix, id) == IF \E f \in ix : f.id = id THEN CHOOSE f \in ix : f.id = id ELSE NoFile

\* EphemeralIndex.all_peers
AllPeers(ix) == UNION {DeclNames(f.id) : f \in ix}

NoPeerIndex == [n \in Vaults |-> [has |-> FALSE, ix |-> {}]]

----------------------------------------------------------------------------
(* Planning: the two passes of _sync_core *)

MkPlan(id, lpath, name, ppath, dec, ld, pd, bd, rto, mode, pass) ==
    [cast_id |-> id, local_path |-> lpath, peer_name |-> name, peer_path |-> ppath,
     decision |-> dec, local_digest |-> ld, peer_digest |-> pd, baseline_digest |-> bd,
     rename_to |-> rto, mode |-> mode, pass |-> pass]

MainStepSelfToo(v, mem, filter, lr, name, mode, s) ==
    IF (filter # {} /\ name \notin filter) \/ ~Resolved(name)
    THEN s
    ELSE LET scanned == LimitedIndex(files[name], lr.path)
             ix == IF s.pidx[name].has THEN AddFiles(s.pidx[name].ix, scanned) ELSE scanned
             peer_rec == GetById(ix, lr.id)
             b == mem[<<lr.id, name>>]
             decision == DecideSync(lr, peer_rec, b, mode)
         IN [pidx |-> [s.pidx EXCEPT ![name] = [has |-> TRUE, ix |-> ix]],
             plans |-> Append(s.plans,
                              MkPlan(lr.id, lr.path, name, lr.path, decision, Digest(lr),
                                     Digest(peer_rec), b, NoPath, mode, "main"))]

\* one (note, declared peer) pair of the planning pass; s = [pidx, plans]
MainStep(v, mem, filter, lr, name, mode, s) ==
    IF (filter # {} /\ name \notin filter) \/ name = v \/ ~Resolved(name)
    THEN s
    ELSE LET scanned == LimitedIndex(files[name], lr.path)
             ix == IF s.pidx[name].has THEN AddFiles(s.pidx[name].ix, scanned) ELSE scanned
             peer_rec == GetById(ix, lr.id)
             b == mem[<<lr.id, name>>]
             decision == DecideSync(lr, peer_rec, b, mode)
             peer_path == IF peer_rec # NoFile THEN peer_rec.path
                          ELSE IF decision \in {"CREATE_PEER", "PUSH"} THEN lr.path
                          ELSE NoPath
             rename_to == IF decision = "RENAME_PEER" /\ peer_path # NoPath THEN lr.path
                          ELSE IF decision = "RENAME_LOCAL" /\ peer_rec # NoFile
                               THEN peer_rec.path
                          ELSE NoPath
         IN [pidx |-> [s.pidx EXCEPT ![name] = [has |-> TRUE, ix |-> ix]],
             plans |-> Append(s.plans,
                              MkPlan(lr.id, lr.path, name, peer_path, decision, Digest(lr),
                                     Digest(peer_rec), b, rename_to, mode, "main"))]

\* the (note, peer) pairs of the planning pass in iteration order
RECURSIVE MainTodo(_, _)
MainTodo(lidx, ord) ==
    IF ord = <<>> THEN <<>>
    ELSE LET id == Head(ord)
         IN (IF id \in IdsIn(lidx)
             THEN [j \in 1..Len(Decl(id)) |-> <<id, Decl(id)[j][1], Decl(id)[j][2]>>]
             ELSE <<>>) \o MainTodo(lidx, Tail(ord))

RECURSIVE MainPass(_, _, _, _, _, _)
MainPass(v, mem, filter, lidx, todo, s) ==
    IF todo = <<>> THEN s
    ELSE CHOOSE r \in {MainPass(v, mem, filter, lidx, rest, s1) :
                           rest \in {Tail(todo)},
                           s1 \in {MainStep(v, mem, filter, lr, t[2], t[3], s) :
                                      t \in {Head(todo)}, lr \in {GetById(lidx, Head(todo)[1])}}} :
             TRUE

\* one baseline (cast_id, peer_name) of the deletion pass;
\* s = [pidx, plans, mem, store]
DeletionStep(v, filter, id, name, s) ==
    IF (filter # {} /\ name \notin filter) \/ (~s.pidx[name].has /\ ~Resolved(name))
    THEN s
    ELSE LET ix == IF s.pidx[name].has THEN s.pidx[name].ix ELSE ScanIndex(files[name])
             peer_rec == GetById(ix, id)
             b == s.mem[<<id, name>>]
             s1 == [s EXCEPT !.pidx[name] = [has |-> TRUE, ix |-> ix]]
         IN IF peer_rec = NoFile
            THEN [s1 EXCEPT !.mem = ClearBaseline(@, id, name),
                            !.store = PeerStoreClear(@, v, id, name)]
            ELSE [s1 EXCEPT !.plans =
                    Append(@, MkPlan(id, peer_rec.path, name, peer_rec.path,
                                     IF Digest(peer_rec) = b THEN "DELETE_PEER" ELSE "CONFLICT",
                                     BlankDigest, Digest(peer_rec), b, NoPath,
                                     ModeOf(id, name), "deletion"))]

DeletionPeers(mem, id) == SelectSeq(VaultSeq, LAMBDA n : mem[<<id, n>>] # 0)

RECURSIVE DeletionTodo(_, _, _)
DeletionTodo(mem, lidx, ord) ==
    IF ord = <<>> THEN <<>>
    ELSE LET id == Head(ord)
             peers == DeletionPeers(mem, id)
         IN (IF id \notin IdsIn(lidx)
             THEN [j \in 1..Len(peers) |-> <<id, peers[j]>>]
             ELSE <<>>) \o DeletionTodo(mem, lidx, Tail(ord))

RECURSIVE DeletionPass(_, _, _, _)
DeletionPass(v, filter, todo, s) ==
    IF todo = <<>> THEN s
    ELSE CHOOSE r \in {DeletionPass(v, filter, rest, s1) :
                           rest \in {Tail(todo)},
                           s1 \in {DeletionStep(v, filter, t[1], t[2], s) : t \in {Head(todo)}}} :
             TRUE

\* the planning part of _sync_core for root v with in-memory baselines mem:
\* [pidx, plans, mem, store]
PlanRun(v, mem, filter, lidx) ==
    CHOOSE r \in {DeletionPass(v, filter, DeletionTodo(mem, lidx, cfg.ids),
                                [pidx |-> m.pidx, plans |-> m.plans, mem |-> mem, store |-> store]) :
                      m \in {MainPass(v, mem, filter, lidx, MainTodo(lidx, IdOrder(lidx)),
                                       [pidx |-> NoPeerIndex, plans |-> <<>>])}} :
        TRUE

----------------------------------------------------------------------------
(* Executing one plan *)

\* _update_baseline_both without the write to the peer's store
UpdateBaselineLocalOnly(mem, sto, self, id, peer, d) ==
    [mem |-> UpdateBaseline(mem, id, peer, d), store |-> sto]

\* _update_baseline_both without the local entry
UpdateBaselinePeerOnly(mem, sto, self, id, peer, d) ==
    [mem |-> mem, store |-> PeerStoreUpdate(sto, self, id, peer, d)]

\* HorizontalSync._update_baseline_both: the in-memory local entry and the
\* peer's store on disk; [mem, store]
UpdateBaselineBoth(mem, sto, self, id, peer, d) ==
    [mem |-> UpdateBaseline(mem, id, peer, d),
     store |-> PeerStoreUpdate(sto, self, id, peer, d)]

\* HorizontalSync._clear_baseline_both; [mem, store]
ClearBaselineBoth(mem, sto, self, id, peer) ==
    [mem |-> ClearBaseline(mem, id, peer),
     store |-> PeerStoreClear(sto, self, id, peer)]

\* what a plan wrote: the vault, the destination it intended, the destination
\* it used, the source file and the file that was at the intended destination
\* before
NoWrite == [wv |-> "", want |-> NoPath, dest |-> NoPath, src |-> NoFile, pre |-> NoFile]

Written(dv, want, dest, src) ==
    [wv |-> dv, want |-> want, dest |-> dest, src |-> src,
     pre |-> FileAt(files[dv], want)]

\* the result of executing a plan: the files, the in-memory baselines, the
\* stores, whether it raised, whether the conflict was skipped, whether its
\* operation was carried out, and what it wrote
Outcome(fl, bs, ok, skip, acted, w) ==
    [files |-> fl, mem |-> bs.mem, store |-> bs.store, ok |-> ok, skip |-> skip,
     acted |-> acted, w |-> w]

Same(mem) == [mem |-> mem, store |-> store]

\* the except branch with the baselines of the pair written all the same
RaisedBaselineWritten(mem, v, plan) ==
    Outcome(files,
            UpdateBaselineBoth(mem, store, v, plan.cast_id, plan.peer_name, plan.local_digest),
            FALSE, FALSE, FALSE, NoWrite)

\* the copy, move or delete of the plan raised: nothing was written and the
\* except branch of the execution loop is taken
Raised(mem, v, plan) == Outcome(files, Same(mem), FALSE, FALSE, FALSE, NoWrite)

\* copy src of vault sv to dest of vault dv, then update both baselines with d
CopyAndUpdate(mem, v, plan, sv, src, dv, dest, prov, d) ==
    LET c == SafeCopy(files[sv], src, files[dv], dest, prov)
        w == Written(dv, dest, c.dest, FileAt(files[sv], src))
    IN IF c.ok
       THEN Outcome([files EXCEPT ![dv] = c.fs],
                    UpdateBaselineBoth(mem, store, v, plan.cast_id, plan.peer_name, d),
                    TRUE, FALSE, TRUE, w)
       ELSE Raised(mem, v, plan)

\* move src to dest inside vault mv, then update both baselines with d
MoveAndUpdate(mem, v, plan, mv, src, dest, prov, d) ==
    LET m == SafeMove(files[mv], src, dest, prov)
        w == Written(mv, dest, m.dest, FileAt(files[mv], src))
    IN IF m.ok
       THEN Outcome([files EXCEPT ![mv] = m.fs],
                    UpdateBaselineBoth(mem, store, v, plan.cast_id, plan.peer_name, d),
                    TRUE, FALSE, TRUE, w)
       ELSE Raised(mem, v, plan)

Or(d, e) == IF d # 0 THEN d ELSE e

\* the CONFLICT branch of the execution loop, for the resolution res
ResolveConflict(mem, v, plan, res) ==
    LET n == plan.peer_name
    IN IF res = "KEEP_LOCAL"
       THEN IF Exists(files[v], plan.local_path)
            THEN IF plan.peer_path # NoPath
                 THEN CopyAndUpdate(mem, v, plan, v, plan.local_path, n, plan.peer_path, v,
                                    plan.local_digest)
                 ELSE Outcome(files,
                              UpdateBaselineBoth(mem, store, v, plan.cast_id, n,
                                                 plan.local_digest),
                              TRUE, FALSE, TRUE, NoWrite)
            ELSE Outcome(IF plan.peer_path # NoPath
                         THEN [files EXCEPT ![n] = Unlink(@, plan.peer_path)]
                         ELSE files,
                         ClearBaselineBoth(mem, store, v, plan.cast_id, n),
                         TRUE, FALSE, TRUE, NoWrite)
       ELSE IF res = "KEEP_PEER"
       THEN IF plan.peer_path # NoPath
            THEN CopyAndUpdate(mem, v, plan, n, plan.peer_path, v, plan.local_path, n,
                               plan.peer_digest)
            ELSE Outcome(files, Same(mem), TRUE, FALSE, FALSE, NoWrite)
       ELSE Outcome(files, Same(mem), TRUE, TRUE, FALSE, NoWrite)

\* one iteration of the execution loop of _sync_core
Execute(mem, v, plan, res) ==
    LET n == plan.peer_name
        d == plan.decision
    IN IF d = "NO_OP"
       THEN IF plan.peer_digest # 0 /\ plan.local_digest = plan.peer_digest
               /\ plan.baseline_digest # plan.local_digest
            THEN Outcome(files,
                         UpdateBaselineBoth(mem, store, v, plan.cast_id, n, plan.local_digest),
                         TRUE, FALSE, TRUE, NoWrite)
            ELSE Outcome(files, Same(mem), TRUE, FALSE, FALSE, NoWrite)
       ELSE IF d = "PULL"
       THEN IF plan.peer_path # NoPath
            THEN CopyAndUpdate(mem, v, plan, n, plan.peer_path, v, plan.local_path, n,
                               plan.peer_digest)
            ELSE Outcome(files, Same(mem), TRUE, FALSE, FALSE, NoWrite)
       ELSE IF d \in {"PUSH", "CREATE_PEER"}
       THEN IF plan.peer_path # NoPath
            THEN CopyAndUpdate(mem, v, plan, v, plan.local_path, n, plan.peer_path, v,
                               plan.local_digest)
            ELSE Outcome(files, Same(mem), TRUE, FALSE, FALSE, NoWrite)
       ELSE IF d = "DELETE_LOCAL"
       THEN Outcome([files EXCEPT ![v] = Unlink(@, plan.local_path)],
                    ClearBaselineBoth(mem, store, v, plan.cast_id, n),
                    TRUE, FALSE, TRUE, NoWrite)
       ELSE IF d = "DELETE_PEER"
       THEN Outcome(IF plan.peer_path # NoPath
                    THEN [files EXCEPT ![n] = Unlink(@, plan.peer_path)]
                    ELSE files,
                    ClearBaselineBoth(mem, store, v, plan.cast_id, n),
                    TRUE, FALSE, TRUE, NoWrite)
       ELSE IF d = "RENAME_PEER"
       THEN IF plan.peer_path # NoPath /\ plan.rename_to # NoPath
            THEN MoveAndUpdate(mem, v, plan, n, plan.peer_path, plan.rename_to, "LOCAL",
                               Or(plan.peer_digest, plan.local_digest))
            ELSE Outcome(files, Same(mem), TRUE, FALSE, FALSE, NoWrite)
       ELSE IF d = "RENAME_LOCAL"
       THEN IF plan.rename_to # NoPath
            THEN MoveAndUpdate(mem, v, plan, v, plan.local_path, plan.rename_to, n,
                               Or(plan.peer_digest, plan.local_digest))
            ELSE Outcome(files, Same(mem), TRUE, FALSE, FALSE, NoWrite)
       ELSE ResolveConflict(mem, v, plan, res)

\* the branch of the execution loop taken for the plan calls shutil.copy2,
\* shutil.move or Path.unlink
DoesIO(v, plan, res) ==
    LET d == plan.decision
    IN IF d \in {"PULL", "PUSH", "CREATE_PEER", "DELETE_PEER"} THEN plan.peer_path # NoPath
       ELSE IF d = "DELETE_LOCAL" THEN TRUE
       ELSE IF d = "RENAME_PEER"
       THEN plan.peer_path # NoPath /\ plan.rename_to # NoPath /\ plan.peer_path # plan.rename_to
       ELSE IF d = "RENAME_LOCAL"
       THEN plan.rename_to # NoPath /\ plan.local_path # plan.rename_to
       ELSE IF d = "CONFLICT" THEN res # "SKIP" /\ plan.peer_path # NoPath
       ELSE FALSE

\* whether the file operation of a plan may raise an OSError of the
\* environment (permissions, a full disk), where the scenario has such faults
Faults(v, plan, res) == IF cfg.ioerr /\ DoesIO(v, plan, res) THEN BOOLEAN ELSE {FALSE}

\* one iteration of the execution loop, the file operation raising or not
Attempt(mem, v, plan, res, fault) ==
    IF fault THEN Raised(mem, v, plan) ELSE Execute(mem, v, plan, res)

\* handle_conflict: KEEP_LOCAL without a prompt, else the user's choice
Resolutions(interactive) ==
    IF interactive THEN {"KEEP_LOCAL", "KEEP_PEER", "SKIP"} ELSE {"KEEP_LOCAL"}

----------------------------------------------------------------------------
(* Sync invocations *)

\* the code of a sub-run dropped
First(a, b) == a

Max(a, b) == IF a >= b THEN a ELSE b

Min(a, b) == IF a <= b THEN a ELSE b

\* the orders in which a directory listing or a stored dict may list S
Orders(S) ==
    {o \in [1..Cardinality(S) -> S] : \A i, j \in 1..Cardinality(S) : o[i] = o[j] => i = j}

IdleRun ==
    [root |-> "", mem |-> EmptyStore, plans |-> <<>>, code |-> 0, conflicts |-> FALSE,
     done |-> {}, k |-> 0, lids |-> {}, raised |-> FALSE]

\* which invocation was the first since the last user edit
NoRun == [root |-> "", casc |-> FALSE]

NoOpts == [nonint |-> FALSE, dry |-> FALSE, cascade |-> FALSE, filter |-> {}, top |-> ""]

\* no exit code yet
NoCode == -1

\* the core runs of an invocation: their roots in order, the codes they
\* returned, and the code the top-level sync() returned
NoCalls == [cores |-> <<>>, codes |-> {}, result |-> NoCode]

\* no `cast hsync` command has exited yet
NoStatus == [code |-> NoCode, why |-> ""]

NoPlan == MkPlan("", NoPath, "", NoPath, "none", 0, 0, 0, NoPath, "none", "main")

NoLast ==
    [op |-> "none", res |-> "", ok |-> TRUE, id |-> "", peer |-> "", w |-> NoWrite,
     plan |-> NoPlan]

Quiet == \A q \in Procs : pc[q] \in {"idle", "off"}

\* the invocation changed a note file or a baseline entry on disk
Touched == files' # files \/ store' # store

\* del: the (note, vault) pairs the step deleted
Track(acted, del) ==
    hist' = IF cfg.track /\ hist.root # ""
            THEN [hist EXCEPT !.dirty = @ \/ Touched, !.acted = @ \/ acted]
            ELSE IF cfg.gone
            THEN [hist EXCEPT !.gone = @ \cup del]
            ELSE hist

\* HorizontalSync(v) is constructed and _sync_core(filter, ...) runs up to
\* the end of planning; a dry run returns 0 there; fresh: the call is the
\* top-level one of its invocation
BeginCore(q, v, filter, dry, fresh) ==
    /\ \E lidx \in {ScanIndex(files[v])} :
       \E pr \in {PlanRun(v, store[v], filter, lidx)} :
          /\ run' = [run EXCEPT ![q] =
                        [root |-> v, mem |-> pr.mem, plans |-> pr.plans, code |-> 0,
                         conflicts |-> FALSE, done |-> {}, k |-> 0,
                         lids |-> IdsIn(lidx), raised |-> FALSE]]
          /\ store' = pr.store
          /\ pc' = [pc EXCEPT ![q] = IF dry THEN "ret" ELSE "exec"]
    /\ last' = [last EXCEPT ![q] = NoLast]
    /\ calls' = [calls EXCEPT ![q] =
                    [cores |-> Append((IF fresh THEN NoCalls ELSE calls[q]).cores, v),
                     codes |-> (IF fresh THEN NoCalls ELSE calls[q]).codes,
                     result |-> NoCode]]
    /\ UNCHANGED <<cfg, lock, cli, registry, casts, rn, fm, files>>

\* the baseline entries as the updates made so far leave them, each applied
\* to its store when it is made: after the planning pass of q from root v
\* (its deletion pass clears orphan baselines) ...
WrittenByPlanning(wr, q, v) ==
    [u \in Vaults |->
        [k \in Pairs |->
            IF u = v /\ run'[q].mem[k] # store[v][k] THEN run'[q].mem[k]
            ELSE IF store'[u][k] # store[u][k] THEN store'[u][k]
            ELSE wr[u][k]]]

\* ... and after a plan of root v was executed with the result e: a plan
\* that acted has set or cleared the entry of its pair in both stores
WrittenByPlan(wr, mem, v, plan, e) ==
    IF ~(e.acted \/ e.mem # mem \/ e.store # store) THEN wr
    ELSE [wr EXCEPT ![v][<<plan.cast_id, plan.peer_name>>] = e.mem[<<plan.cast_id, plan.peer_name>>],
                    ![plan.peer_name][<<plan.cast_id, v>>] =
                        e.store[plan.peer_name][<<plan.cast_id, v>>]]

\* HorizontalSync(v).sync(...) is called with the arguments o
Start(q, v, o) ==
    /\ pc[q] = "idle"
    /\ v \in registry
    /\ o.dry => cfg.dry
    /\ o.cascade => cfg.casc
    /\ cfg.runs # 0 => hist.r < cfg.runs
    /\ opts' = [opts EXCEPT ![q] = o]
    /\ stack' = [stack EXCEPT ![q] = <<>>]
    /\ visited' = [visited EXCEPT ![q] = {}]
    /\ BeginCore(q, v, o.filter, o.dry, TRUE)
    /\ hist' = IF cfg.runs # 0
               THEN [hist EXCEPT !.wr = IF cfg.wr THEN WrittenByPlanning(@, q, v) ELSE @,
                                 !.r = @ + 1,
                                 !.first = IF hist.r = 0
                                           THEN [root |-> v, casc |-> o.cascade]
                                           ELSE @]
               ELSE IF ~cfg.track THEN hist
               ELSE IF o.nonint /\ ~o.dry
               THEN [hist EXCEPT !.n = IF hist.root = v /\ hist.casc = o.cascade THEN @ ELSE 0,
                                 !.root = v, !.casc = o.cascade,
                                 !.dirty = Touched, !.acted = FALSE]
               ELSE [hist EXCEPT !.n = 0, !.root = "", !.casc = FALSE,
                                 !.dirty = FALSE, !.acted = FALSE]

\* the vault an executed DELETE_LOCAL / DELETE_PEER plan removed the note from,
\* where the note's deletion had been made while it was in sync
Accepted(plan, v, e) ==
    LET dv == IF plan.decision = "DELETE_LOCAL" THEN v ELSE plan.peer_name
    IN IF /\ plan.decision \in {"DELETE_LOCAL", "DELETE_PEER"}
          /\ e.ok
          /\ \E g \in hist.gone : g[1] = plan.cast_id
          /\ NotesOf(e.files[dv], plan.cast_id) = {}
       THEN {<<plan.cast_id, dv>>}
       ELSE {}

\* the notes kept by a conflict resolution, as <<note, vault, content>>: a
\* CONFLICT resolved as KEEP_LOCAL with the local file present keeps the
\* local note; any resolution but SKIP supersedes what was kept of the note
Keep(kept, plan, v, res, e) ==
    IF plan.decision # "CONFLICT" \/ res = "SKIP" \/ ~e.ok THEN kept
    ELSE {k \in kept : k[1] # plan.cast_id}
            \cup (IF res = "KEEP_LOCAL" /\ Exists(files[v], plan.local_path)
                  THEN {<<plan.cast_id, v, FileAt(files[v], plan.local_path).body>>}
                  ELSE {})

\* the execution loop of _sync_core runs its next plan
ExecPlan(q) ==
    /\ pc[q] = "exec"
    /\ run[q].plans # <<>>
    /\ LET plan == Head(run[q].plans)
           v == run[q].root
       IN \E res \in Resolutions(~opts[q].nonint /\ plan.decision = "CONFLICT") :
            \E fault \in Faults(v, plan, res) :
            \E e \in {Attempt(run[q].mem, v, plan, res, fault)} :
               /\ PathOK(e.w.dest)
               /\ files' = e.files
               /\ store' = e.store
               /\ run' = [run EXCEPT ![q].mem = e.mem,
                                     ![q].plans = Tail(@),
                                     ![q].code = IF e.ok THEN @ ELSE 1,
                                     ![q].conflicts = @ \/ e.skip,
                                     ![q].k = @ + 1,
                                     ![q].raised = @ \/ ~e.ok,
                                     ![q].done = IF e.ok /\ e.acted /\ plan.decision # "CONFLICT"
                                                 THEN @ \cup {<<plan.cast_id, plan.peer_name>>}
                                                 ELSE @]
               /\ last' = [last EXCEPT ![q] =
                              [op |-> plan.decision,
                               res |-> IF plan.decision = "CONFLICT" THEN res ELSE "",
                               ok |-> e.ok, id |-> plan.cast_id, peer |-> plan.peer_name,
                               w |-> e.w, plan |-> plan]]
               /\ IF cfg.keep
                  THEN hist' = [hist EXCEPT !.kept = Keep(@, plan, v, res, e)]
                  ELSE IF cfg.wr
                  THEN hist' = [hist EXCEPT !.wr = WrittenByPlan(@, run[q].mem, v, plan, e)]
                  ELSE Track(plan.decision # "NO_OP", Accepted(plan, v, e))
    /\ UNCHANGED <<cfg, lock, cli, registry, casts, rn, fm, pc, opts, stack, visited, calls>>

\* what a note file holds when shutil.copy2 was cut short: a part of the
\* source, which is no complete content
TornBody == MaxBody + 1

\* the process is killed while the shutil.copy2 of its next plan writes the
\* destination file in place
InterruptedCopy(q) ==
    /\ pc[q] = "exec"
    /\ run[q].plans # <<>>
    /\ LET plan == Head(run[q].plans)
           v == run[q].root
       IN \E res \in Resolutions(~opts[q].nonint /\ plan.decision = "CONFLICT") :
            \E e \in {Execute(run[q].mem, v, plan, res)} :
               /\ e.ok
               /\ e.w.wv # ""
               /\ plan.decision \notin {"RENAME_PEER", "RENAME_LOCAL"}
               /\ PathOK(e.w.dest)
               /\ files' = [files EXCEPT ![e.w.wv] =
                                CopyInto(@, [e.w.src EXCEPT !.body = TornBody], e.w.dest)]
    /\ pc' = [pc EXCEPT ![q] = "off"]
    /\ UNCHANGED <<cfg, lock, cli, registry, casts, rn, fm, store, opts, run, stack, visited, last,
                   hist, calls>>

\* the end of _sync_core where skipped conflicts do not replace exit code 1
SaveErrorWins(q) ==
    /\ pc[q] = "exec"
    /\ run[q].plans = <<>>
    /\ store' = [store EXCEPT ![run[q].root] = run[q].mem]
    /\ run' = [run EXCEPT ![q].code = IF run[q].conflicts /\ @ = 0 THEN 3 ELSE @]
    /\ pc' = [pc EXCEPT ![q] = "ret"]
    /\ last' = [last EXCEPT ![q] = NoLast]
    /\ UNCHANGED <<cfg, lock, cli, registry, casts, rn, fm, files, opts, stack, visited, calls>>
    /\ Track(FALSE, {})

\* the end of _sync_core: _save_syncstate, then the exit code
Save(q) ==
    /\ pc[q] = "exec"
    /\ run[q].plans = <<>>
    /\ store' = [store EXCEPT ![run[q].root] = run[q].mem]
    /\ run' = [run EXCEPT ![q].code = IF run[q].conflicts THEN 3 ELSE @]
    /\ pc' = [pc EXCEPT ![q] = "ret"]
    /\ last' = [last EXCEPT ![q] = NoLast]
    /\ UNCHANGED <<cfg, lock, cli, registry, casts, rn, fm, files, opts, stack, visited, calls>>
    /\ Track(FALSE, {})

\* the invocation is over: sync() of the top-level root returned
Finish(q, code) ==
    /\ pc' = [pc EXCEPT ![q] = "idle"]
    /\ calls' = [calls EXCEPT ![q].codes = @ \cup (IF run[q].root # "" THEN {run[q].code} ELSE {}),
                              ![q].result = code]
    /\ run' = [run EXCEPT ![q] = IdleRun]
    /\ opts' = [opts EXCEPT ![q] = NoOpts]
    /\ stack' = [stack EXCEPT ![q] = <<>>]
    /\ visited' = [visited EXCEPT ![q] = {}]
    /\ hist' = IF cfg.track /\ hist.root # ""
               THEN [hist EXCEPT !.n = Min(@ + 1, MaxStreak)]
               ELSE hist
    /\ UNCHANGED <<cfg, lock, cli, registry, casts, rn, fm, files, store, last>>

\* sync() after _sync_core returned: return at once without cascade, else
\* add the root to visited_roots and list its declared peers
AfterCore(q) ==
    /\ pc[q] = "ret"
    /\ IF stack[q] = <<>> /\ ~opts[q].cascade
       THEN Finish(q, run[q].code)
       ELSE /\ visited' = [visited EXCEPT ![q] = @ \cup {run[q].root}]
            /\ stack' = [stack EXCEPT ![q] =
                            Append(@, [root |-> run[q].root,
                                       left |-> AllPeers(files[run[q].root]) \ {run[q].root},
                                       code |-> run[q].code])]
            /\ pc' = [pc EXCEPT ![q] = "casc"]
            /\ run' = [run EXCEPT ![q] = IdleRun]
            /\ calls' = [calls EXCEPT ![q].codes = @ \cup {run[q].code}]
            /\ UNCHANGED <<cfg, lock, cli, registry, casts, rn, fm, files, store, opts, last, hist>>

\* the cascade loop where every peer is skipped
CascadeNextSkip(q, name) ==
    /\ pc[q] = "casc"
    /\ LET top == stack[q][Len(stack[q])]
       IN /\ name \in top.left
          /\ stack' = [stack EXCEPT ![q][Len(stack[q])].left = @ \ {name}]
          /\ UNCHANGED <<cfg, lock, cli, registry, casts, rn, fm, files, store, pc, run, last, hist, calls>>
    /\ UNCHANGED <<opts, visited>>

\* the cascade loop without the test of visited_roots
CascadeNextRevisit(q, name) ==
    /\ pc[q] = "casc"
    /\ LET top == stack[q][Len(stack[q])]
       IN /\ name \in top.left
          /\ stack' = [stack EXCEPT ![q][Len(stack[q])].left = @ \ {name}]
          /\ IF ~Resolved(name)
             THEN UNCHANGED <<cfg, lock, cli, registry, casts, rn, fm, files, store, pc, run, last, hist, calls>>
             ELSE /\ BeginCore(q, name, {}, opts[q].dry, FALSE)
                  /\ Track(FALSE, {})
    /\ UNCHANGED <<opts, visited>>

\* the cascade loop takes the next peer name: skipped when unresolved or
\* visited, else HorizontalSync(peer_root).sync(None, ...) starts
CascadeNext(q, name) ==
    /\ pc[q] = "casc"
    /\ LET top == stack[q][Len(stack[q])]
       IN /\ name \in top.left
          /\ stack' = [stack EXCEPT ![q][Len(stack[q])].left = @ \ {name}]
          /\ IF ~Resolved(name) \/ name \in visited[q]
             THEN UNCHANGED <<cfg, lock, cli, registry, casts, rn, fm, files, store, pc, run, last, hist, calls>>
             ELSE /\ BeginCore(q, name, {}, opts[q].dry, FALSE)
                  /\ Track(FALSE, {})
    /\ UNCHANGED <<opts, visited>>

\* the cascade loop of a sync() call is over: it returns its code, and the
\* caller keeps the maximum
CascadeReturn(q) ==
    /\ pc[q] = "casc"
    /\ LET n == Len(stack[q])
           top == stack[q][n]
       IN /\ top.left = {}
          /\ IF n = 1
             THEN Finish(q, top.code)
             ELSE /\ stack' = [stack EXCEPT ![q] =
                                  [SubSeq(@, 1, n - 1) EXCEPT ![n - 1].code = Max(@, top.code)]]
                  /\ UNCHANGED <<cfg, lock, cli, registry, casts, rn, fm, files, store, pc, opts, run, visited,
                                  last, hist, calls>>

----------------------------------------------------------------------------
(* The command line: `cast hsync` *)

\* cast_lock(root) can be entered by q: no process holds the lock of v
LockFree(v) == lock[v] = ""

Exit(q, code, why) == cli' = [cli EXCEPT ![q] = [code |-> code, why |-> why]]

\* `cast hsync` is run in vault v up to `with cast_lock(root)`: exit 2 when
\* the vault directory is not there or the lock is busy, else the lock is held
HsyncEnter(q, v, there) ==
    /\ pc[q] = "idle"
    /\ IF ~there
       THEN Exit(q, 2, "novault") /\ UNCHANGED <<lock, pc, opts>>
       ELSE IF ~LockFree(v)
       THEN Exit(q, 2, "busy") /\ UNCHANGED <<lock, pc, opts>>
       ELSE /\ lock' = [lock EXCEPT ![v] = q]
            /\ pc' = [pc EXCEPT ![q] = "cli"]
            /\ opts' = [opts EXCEPT ![q] = [NoOpts EXCEPT !.top = v]]
            /\ cli' = [cli EXCEPT ![q] = NoStatus]
    /\ calls' = [calls EXCEPT ![q] = NoCalls]
    /\ UNCHANGED <<cfg, registry, casts, rn, fm, files, store, run, stack, visited, last, hist>>

\* inside the lock: syncer.sync(..., debug=debug) raises TypeError, for sync()
\* has no parameter `debug`; the lock is released and the command exits 2
HsyncCall(q) ==
    /\ pc[q] = "cli"
    /\ lock' = [lock EXCEPT ![opts[q].top] = ""]
    /\ pc' = [pc EXCEPT ![q] = "idle"]
    /\ opts' = [opts EXCEPT ![q] = NoOpts]
    /\ Exit(q, 2, "raised")
    /\ UNCHANGED <<cfg, registry, casts, rn, fm, files, store, run, stack, visited, last, hist, calls>>

----------------------------------------------------------------------------
(* Link rewriting after renames: cast_sync/rename.py *)

\* A vault-relative path of a Markdown file is [dirs, stem] and stands for
\* dirs/stem.md; every folder and every stem is a name of one character.
\* Lower is str.lower on these names.
Stems == {"a", "A"}

Lower(s) == IF s = "A" THEN "a" ELSE s

Path(dirs, stem) == [dirs |-> dirs, stem |-> stem]

LowerPath(p) == Path([i \in DOMAIN p.dirs |-> Lower(p.dirs[i])], Lower(p.stem))

\* the folders a note with links may sit in
Folders == {<<>>, <<"d">>}

\* the paths a rename may name
RenamePaths == {Path(<<>>, "a"), Path(<<>>, "A"), Path(<<"d">>, "a")}

\* RenameSpec(old_rel, new_rel); old_noext, new_noext are the paths themselves,
\* old_stem, new_stem their stems
RenameSpec(old, new) == [old |-> old, new |-> new]

\* len(old_rel): the names, the separators and ".md"
RelLen(p) == 2 * Len(p.dirs) + 1 + 3

StemLen(p) == 1

\* _eq
Eq(a, b, case_sensitive) == IF case_sensitive THEN a = b ELSE LowerPath(a) = LowerPath(b)

\* _exists_any on a file system that tells upper case from lower case
ExistsAny(present, rel) == rel \in present

InSeq(x, s) == \E i \in DOMAIN s : s[i] = x

CanonAsGiven(present, s, flip_reversed) == s

\* _prepare_specs, step 1: a spec whose source exists and whose destination
\* does not is flipped
Canon(present, s, flip_reversed) ==
    IF flip_reversed /\ ExistsAny(present, s.old) /\ ~ExistsAny(present, s.new)
    THEN RenameSpec(s.new, s.old)
    ELSE s

RECURSIVE Prelim(_, _, _, _)
\* _prepare_specs, step 1: no-ops are skipped, reversed specs flipped,
\* duplicates dropped
Prelim(present, todo, flip_reversed, acc) ==
    IF todo = <<>> THEN acc
    ELSE IF Head(todo).old = Head(todo).new
         THEN Prelim(present, Tail(todo), flip_reversed, acc)
         ELSE LET s == Canon(present, Head(todo), flip_reversed)
              IN  Prelim(present, Tail(todo), flip_reversed,
                         IF InSeq(s, acc) THEN acc ELSE Append(acc, s))

\* mapping = {s.old_rel: s.new_rel for s in prelim}: the last spec of a source wins
InMapping(prelim, x) == \E i \in DOMAIN prelim : prelim[i].old = x

Mapping(prelim, x) ==
    LET last_i == CHOOSE i \in DOMAIN prelim :
                      /\ prelim[i].old = x
                      /\ \A j \in DOMAIN prelim : prelim[j].old = x => j <= i
    IN  prelim[last_i].new

RECURSIVE FollowFrom(_, _, _)
FollowFrom(prelim, cur, seen) ==
    IF InMapping(prelim, cur) /\ cur \notin seen
    THEN FollowFrom(prelim, Mapping(prelim, cur), seen \cup {cur})
    ELSE cur

\* _follow
Follow(prelim, x) == FollowFrom(prelim, x, {})

RECURSIVE CollapsedFrom(_, _, _)
CollapsedFrom(prelim, i, acc) ==
    IF i > Len(prelim) THEN acc
    ELSE IF \E j \in DOMAIN acc : acc[j].old = prelim[i].old
         THEN CollapsedFrom(prelim, i + 1, acc)
         ELSE CollapsedFrom(prelim, i + 1,
                  Append(acc, RenameSpec(prelim[i].old,
                                         Follow(prelim, Mapping(prelim, prelim[i].old)))))

\* _prepare_specs, step 2: the dict collapsed, in the order of its keys
Collapsed(prelim) == CollapsedFrom(prelim, 1, <<>>)

\* _prepare_specs, step 3: of a spec and its inverse the one whose destination
\* exists is preferred
Preferred(present, collapsed, s) ==
    IF \E j \in DOMAIN collapsed : s.new = collapsed[j].old /\ s.old = collapsed[j].new
    THEN IF ExistsAny(present, s.old) /\ ~ExistsAny(present, s.new)
         THEN RenameSpec(s.new, s.old)
         ELSE s
    ELSE s

RECURSIVE Unique(_, _)
\* result_unique: the first occurrence of every spec
Unique(todo, acc) ==
    IF todo = <<>> THEN acc
    ELSE Unique(Tail(todo), IF InSeq(Head(todo), acc) THEN acc ELSE Append(acc, Head(todo)))

\* the sort key (len(old_rel), len(old_stem)), compared as tuples
KeyLess(s, t) ==
    \/ RelLen(s.old) < RelLen(t.old)
    \/ RelLen(s.old) = RelLen(t.old) /\ StemLen(s.old) < StemLen(t.old)

\* one spec put into a list sorted longest first, behind its equals
Insert(sorted, s) ==
    LET before == {i \in DOMAIN sorted : ~KeyLess(sorted[i], s)}
        n == Cardinality(before)
    IN  SubSeq(sorted, 1, n) \o <<s>> \o SubSeq(sorted, n + 1, Len(sorted))

RECURSIVE Ordered(_, _)
\* ordered.sort(key=..., reverse=True), a stable sort
Ordered(todo, acc) ==
    IF todo = <<>> THEN acc ELSE Ordered(Tail(todo), Insert(acc, Head(todo)))

\* _prepare_specs
PrepareSpecs(present, renames, case_sensitive, flip_reversed) ==
    LET prelim == Prelim(present, renames, flip_reversed, <<>>)
        collapsed == Collapsed(prelim)
        result == [j \in DOMAIN collapsed |-> Preferred(present, collapsed, collapsed[j])]
    IN  IF renames = <<>> \/ prelim = <<>> THEN <<>>
        ELSE Ordered(Unique(result, <<>>), <<>>)

\* [[dirs/stem]] or [[dirs/stem.md]]
WikiLink(dirs, stem, ext) ==
    [kind |-> "wiki", up |-> 0, dirs |-> dirs, stem |-> stem, ext |-> ext]

\* [text](../dirs/stem) or [text](../dirs/stem.md), with up times "../"
MdLink(up, dirs, stem, ext) ==
    [kind |-> "md", up |-> up, dirs |-> dirs, stem |-> stem, ext |-> ext]

\* _rewrite_wiki: should_change for one link
WikiChange(link, spec, case_sensitive) ==
    /\ link.kind = "wiki"
    /\ IF link.dirs # <<>>
       THEN Eq(Path(link.dirs, link.stem), spec.old, case_sensitive)
       ELSE /\ Eq(Path(<<>>, link.stem), Path(<<>>, spec.old.stem), case_sensitive)
            /\ ~Eq(Path(<<>>, spec.old.stem), Path(<<>>, spec.new.stem), case_sensitive)

\* _rewrite_wiki: new_target, written without ".md"
WikiTarget(link, spec) ==
    IF link.dirs # <<>>
    THEN WikiLink(spec.new.dirs, spec.new.stem, FALSE)
    ELSE WikiLink(<<>>, spec.new.stem, FALSE)

\* _posix_join_norm(cur_rel_dir, url): the folder the url resolves to, with
\* the "../" that lead out of the vault
PosixJoinNorm(cur_rel_dir, link) ==
    IF link.up <= Len(cur_rel_dir)
    THEN [up |-> 0, dirs |-> SubSeq(cur_rel_dir, 1, Len(cur_rel_dir) - link.up) \o link.dirs]
    ELSE [up |-> link.up - Len(cur_rel_dir), dirs |-> link.dirs]

\* _rewrite_mdlinks: is_match for one link
MdMatch(link, spec, cur_rel_dir, case_sensitive) ==
    /\ link.kind = "md"
    /\ PosixJoinNorm(cur_rel_dir, link).up = 0
    /\ Eq(Path(PosixJoinNorm(cur_rel_dir, link).dirs, link.stem), spec.old, case_sensitive)

\* the number of leading folders two paths share
CommonPrefix(a, b) ==
    Cardinality({n \in 1..Len(a) : n <= Len(b) /\ \A i \in 1..n : a[i] = b[i]})

\* posixpath.relpath(spec.new_rel, start=cur_rel_dir), the extension kept as
\* the link had it
RelPath(link, spec, cur_rel_dir) ==
    LET n == CommonPrefix(cur_rel_dir, spec.new.dirs)
    IN  MdLink(Len(cur_rel_dir) - n, SubSeq(spec.new.dirs, n + 1, Len(spec.new.dirs)),
               spec.new.stem, link.ext)

\* _rewrite_wiki over the links of a body
RewriteWiki(body, spec, case_sensitive) ==
    [body |-> [i \in DOMAIN body |->
                  IF WikiChange(body[i], spec, case_sensitive)
                  THEN WikiTarget(body[i], spec) ELSE body[i]],
     count |-> Cardinality({i \in DOMAIN body : WikiChange(body[i], spec, case_sensitive)})]

\* _rewrite_mdlinks over the links of a body
RewriteMdlinks(body, spec, cur_rel_dir, case_sensitive) ==
    [body |-> [i \in DOMAIN body |->
                  IF MdMatch(body[i], spec, cur_rel_dir, case_sensitive)
                  THEN RelPath(body[i], spec, cur_rel_dir) ELSE body[i]],
     count |-> Cardinality({i \in DOMAIN body :
                               MdMatch(body[i], spec, cur_rel_dir, case_sensitive)})]

RECURSIVE RewriteBody(_, _, _, _, _)
\* _rewrite_body: the specs are applied one after the other
RewriteBody(body, renames, cur_rel_dir, case_sensitive, total) ==
    IF renames = <<>> THEN [body |-> body, count |-> total]
    ELSE LET w == RewriteWiki(body, Head(renames), case_sensitive)
             m == RewriteMdlinks(w.body, Head(renames), cur_rel_dir, case_sensitive)
         IN  RewriteBody(m.body, Tail(renames), cur_rel_dir, case_sensitive,
                         total + w.count + m.count)

\* LinkRewriteReport
Report(files_changed, total_replacements) ==
    [files_changed |-> files_changed, total_replacements |-> total_replacements]

\* a line "---" of a note; the text of a note is a sequence of such lines and
\* of links
Fence == [kind |-> "fence", up |-> 0, dirs |-> <<>>, stem |-> "", ext |-> FALSE]

NoFrontMatter(content) == [header |-> <<>>, body |-> content]

\* _split_front_matter: _FM_RE matches a first line "---" up to the next line
\* "---" that has a line of its own before it
SplitFrontMatter(content) ==
    LET closing == {j \in 3..Len(content) : content[j] = Fence}
    IN  IF content # <<>> /\ content[1] = Fence /\ closing # {}
        THEN LET j == CHOOSE j \in closing : \A k \in closing : j <= k
             IN  [header |-> SubSeq(content, 1, j),
                  body |-> SubSeq(content, j + 1, Len(content))]
        ELSE [header |-> <<>>, body |-> content]

\* update_links_for_renames on a vault whose one note with links sits in
\* cur_rel_dir: the text of the note after the call (body), the report, and
\* whether the note was written
UpdateLinksForRenames(present, cur_rel_dir, body, renames, case_sensitive) ==
    LET specs == PrepareSpecs(present, renames, case_sensitive, TRUE)
        parts == SplitFrontMatter(body)
        r == RewriteBody(parts.body, specs, cur_rel_dir, case_sensitive, 0)
    IN  IF specs = <<>> \/ r.count = 0
        THEN [body |-> body, report |-> Report(0, 0), written |-> FALSE]
        ELSE [body |-> parts.header \o r.body, report |-> Report(1, r.count), written |-> TRUE]

\* the vault the rewriter works on: the files that exist, the folder and the
\* text of the note, the caller's renames and case_sensitive, the note before
\* every call so far, the reports of the calls and whether they wrote the note
NoRename ==
    [on |-> FALSE, present |-> {}, cur |-> <<>>, body |-> <<>>, renames |-> <<>>,
     cs |-> TRUE, was |-> <<>>, reports |-> <<>>, wrote |-> <<>>]

MaxLinks == 1

MaxSpecs == 2

MaxCalls == 2

LinkSet ==
    {WikiLink(d, s, e) : d \in Folders, s \in Stems, e \in BOOLEAN}
        \cup {MdLink(u, d, s, e) : u \in 0..1, d \in Folders, s \in Stems, e \in BOOLEAN}

SeqsUpTo(S, n) == UNION {[1..k -> S] : k \in 0..n}

\* a caller: update_links_for_renames(vault, renames, case_sensitive=cs)
UpdateLinks ==
    /\ rn.on
    /\ Len(rn.reports) < MaxCalls
    /\ \E r \in {UpdateLinksForRenames(rn.present, rn.cur, rn.body, rn.renames, rn.cs)} :
          rn' = [rn EXCEPT !.body = r.body,
                           !.was = Append(@, rn.body),
                           !.reports = Append(@, r.report),
                           !.wrote = Append(@, r.written)]
    /\ UNCHANGED <<cfg, lock, cli, registry, casts, fm, files, store, pc, opts, run, stack,
                   visited, last, hist, calls>>

----------------------------------------------------------------------------
(* Front-matter maps: cast_core/yamlio.py *)

\* the keys of a front-matter map; a map is a sequence of [key, value] with
\* distinct keys, in the order of the dict
Keys ==
    {"last-updated", "cast-id", "cast-vaults", "cast-codebases", "cast-version", "cast-hsync",
     "title", "tags"}

\* key.startswith("cast-")
StartsWithCast(key) ==
    key \in {"cast-id", "cast-vaults", "cast-codebases", "cast-version", "cast-hsync"}

CAST_FIELDS_ORDER == <<"cast-id", "cast-vaults", "cast-codebases", "cast-version">>

RECURSIVE InOrder(_, _)
\* for field in CAST_FIELDS_ORDER: if field in cast_fields: result[field] = ...
InOrder(cast_fields, order) ==
    IF order = <<>> THEN <<>>
    ELSE SelectSeq(cast_fields, LAMBDA e : e.key = Head(order)) \o InOrder(cast_fields, Tail(order))

\* reorder_cast_fields
ReorderCastFields(front_matter) ==
    LET cast_fields == SelectSeq(front_matter, LAMBDA e : StartsWithCast(e.key))
        other_fields == SelectSeq(front_matter, LAMBDA e : ~StartsWithCast(e.key))
    IN  SelectSeq(other_fields, LAMBDA e : e.key = "last-updated")
            \o InOrder(cast_fields, CAST_FIELDS_ORDER)
            \o SelectSeq(other_fields, LAMBDA e : e.key # "last-updated")

\* no map is given
NoMap == [on |-> FALSE, given |-> <<>>, out |-> <<>>]

MaxKeys == 3

\* the maps of at most MaxKeys keys
Maps ==
    {m \in SeqsUpTo([key : Keys, value : 1..2], MaxKeys) :
        \A i, j \in DOMAIN m : m[i].key = m[j].key => i = j}

\* a caller applies reorder_cast_fields to the map, or to the result it got
Reorder ==
    /\ fm.on
    /\ Len(fm.out) < MaxCalls
    /\ fm' = [fm EXCEPT !.out =
                  Append(@, ReorderCastFields(IF @ = <<>> THEN fm.given ELSE @[Len(@)]))]
    /\ UNCHANGED <<cfg, lock, cli, registry, casts, rn, files, store, pc, opts, run, stack,
                   visited, last, hist, calls>>

----------------------------------------------------------------------------
(* The machine registry: `cast install` and `cast uninstall` *)

\* register_cast(root), where the config of root has cast-id id and cast-name
\* name: the entry under id is set
RegisterCast(root, id, name) ==
    /\ Quiet
    /\ casts' = [casts EXCEPT ![id] = [name |-> name, root |-> root]]
    /\ registry' = NamesOf(casts')
    /\ UNCHANGED <<cfg, lock, cli, rn, fm, files, store, pc, opts, run, stack, visited, last, hist, calls>>

\* the entries unregister_cast(cast_id=..) / (name=..) / (root=..) may pick
Targets(by, ident) ==
    IF by = "cast_id" THEN {c \in Listed(casts) : c = ident}
    ELSE IF by = "name" THEN {c \in Listed(casts) : casts[c].name = ident}
    ELSE {c \in Listed(casts) : casts[c].root = ident}

\* unregister_cast: one entry that matches is removed (the first of them in the
\* order of the file, an order the entries of casts do not keep)
UnregisterCast(by, ident) ==
    /\ Quiet
    /\ \E c \in Targets(by, ident) :
          casts' = [casts EXCEPT ![c] = NoEntry]
    /\ registry' = NamesOf(casts')
    /\ UNCHANGED <<cfg, lock, cli, rn, fm, files, store, pc, opts, run, stack, visited, last, hist, calls>>

----------------------------------------------------------------------------
(* The user, between invocations *)

\* a user edit; del: the (note, vault) pairs of a deletion made in sync,
\* made: those of a creation
Forget(del, made) ==
    /\ hist.e < cfg.edits
    /\ hist' = IF cfg.track
               THEN [hist EXCEPT !.n = 0, !.root = "", !.casc = FALSE, !.dirty = FALSE,
                                 !.acted = FALSE, !.e = @ + 1]
               ELSE [hist EXCEPT !.e = @ + 1, !.gone = IF cfg.gone THEN del ELSE @,
                                 !.by = IF cfg.gone THEN del ELSE @,
                                 !.made = IF cfg.gone THEN made ELSE @,
                                 !.r = 0, !.first = NoRun, !.kept = {}]

\* every registered vault holds note id with the same content, and every
\* baseline of the note between registered vaults is the digest of it
InSync(id) ==
    \E d \in 1..MaxBody :
        \A v \in registry :
            /\ NotesOf(files[v], id) # {}
            /\ \A f \in NotesOf(files[v], id) : Digest(f) = d
            /\ \A n \in registry \ {v} : store[v][<<id, n>>] = d

UserCreate(v, id, b, body) ==
    /\ Quiet
    /\ v \in registry
    /\ id \in cfg.notes
    /\ NotesOf(files[v], id) = {}
    /\ ~Exists(files[v], Base(b))
    /\ files' = [files EXCEPT ![v] = @ \cup {[path |-> Base(b), id |-> id, body |-> body]}]
    /\ Forget({}, {<<id, v>>})
    /\ calls' = [q \in Procs |-> NoCalls]
    /\ UNCHANGED <<cfg, lock, cli, registry, casts, rn, fm, store, pc, opts, run, stack, visited, last>>

UserEdit(v, f, body) ==
    /\ Quiet
    /\ f \in files[v]
    /\ f.body # body
    /\ files' = [files EXCEPT ![v] = (@ \ {f}) \cup {[f EXCEPT !.body = body]}]
    /\ Forget({}, {})
    /\ calls' = [q \in Procs |-> NoCalls]
    /\ UNCHANGED <<cfg, lock, cli, registry, casts, rn, fm, store, pc, opts, run, stack, visited, last>>

UserRename(v, f, b) ==
    /\ Quiet
    /\ f \in files[v]
    /\ ~Exists(files[v], Base(b))
    /\ files' = [files EXCEPT ![v] = (@ \ {f}) \cup {[f EXCEPT !.path = Base(b)]}]
    /\ Forget({}, {})
    /\ calls' = [q \in Procs |-> NoCalls]
    /\ UNCHANGED <<cfg, lock, cli, registry, casts, rn, fm, store, pc, opts, run, stack, visited, last>>

UserDelete(v, f) ==
    /\ Quiet
    /\ f \in files[v]
    /\ files' = [files EXCEPT ![v] = @ \ {f}]
    /\ Forget(IF InSync(f.id) /\ NotesOf(files[v], f.id) = {f} THEN {<<f.id, v>>} ELSE {}, {})
    /\ calls' = [q \in Procs |-> NoCalls]
    /\ UNCHANGED <<cfg, lock, cli, registry, casts, rn, fm, store, pc, opts, run, stack, visited, last>>

----------------------------------------------------------------------------
(* Specifications *)

Bodies == 1..MaxBody

OptSet ==
    {[nonint |-> ni, dry |-> dr, cascade |-> ca, filter |-> {}, top |-> ""] :
        ni \in BOOLEAN, dr \in BOOLEAN, ca \in BOOLEAN}

NoHist ==
    [n |-> 0, root |-> "", casc |-> FALSE, dirty |-> FALSE, acted |-> FALSE,
     e |-> 0, r |-> 0, gone |-> {}, by |-> {}, made |-> {}, first |-> NoRun, kept |-> {},
     wr |-> [v \in Vaults |-> EmptyStore]]

\* the vault contents before any run: in every vault a note has at most one
\* copy and a relpath holds at most one note
VaultContents ==
    {fs \in SUBSET [path : {Base(b) : b \in BasePaths}, id : Ids, body : Bodies] :
        \A f, g \in fs : (f.id = g.id \/ f.path = g.path) => f = g}

RECURSIVE Count(_, _)
Count(fl, S) ==
    IF S = {} THEN 0
    ELSE LET v == CHOOSE v \in S : TRUE
         IN Cardinality(fl[v]) + Count(fl, S \ {v})

\* the vaults as the user has filled them before the first run
FilledVaults == {fl \in [Vaults -> VaultContents] : Count(fl, Vaults) <= MaxNotes}

\* every vault is empty
NoFiles == {[v \in Vaults |-> {}]}

\* a scenario: whether dry runs and cascading runs are in scope, whether the
\* series of runs is recorded, how many edits the user makes, which notes
\* the user creates, how many invocations follow a user edit (0: any number)
Scenario(dry, casc, track, edits, notes, runs) ==
    [dry |-> dry, casc |-> casc, track |-> track, edits |-> edits, notes |-> notes,
     runs |-> runs, gone |-> FALSE, procs |-> {"p1"}, ioerr |-> FALSE, keep |-> FALSE,
     wr |-> FALSE]

InitEngine(reg, sc, fls) ==
    /\ registry = reg
    /\ casts = Installed(reg)
    /\ files \in fls
    /\ store = [v \in Vaults |-> EmptyStore]
    /\ pc = [q \in Procs |-> IF q \in sc.procs THEN "idle" ELSE "off"]
    /\ opts = [q \in Procs |-> NoOpts]
    /\ run = [q \in Procs |-> IdleRun]
    /\ stack = [q \in Procs |-> <<>>]
    /\ visited = [q \in Procs |-> {}]
    /\ last = [q \in Procs |-> NoLast]
    /\ hist = NoHist
    /\ lock = [v \in Vaults |-> ""]
    /\ cli = [q \in Procs |-> NoStatus]
    /\ calls = [q \in Procs |-> NoCalls]
    /\ \E io \in Orders(Ids) :
          cfg = [dry |-> sc.dry, casc |-> sc.casc, track |-> sc.track, ids |-> io,
                 edits |-> sc.edits, notes |-> sc.notes, runs |-> sc.runs,
                 gone |-> sc.gone, ioerr |-> sc.ioerr, keep |-> sc.keep, wr |-> sc.wr]

\* the initial states of the engine; the link rewriter is not called
InitWith(reg, sc, fls) == InitEngine(reg, sc, fls) /\ rn = NoRename /\ fm = NoMap

Init == InitWith({"A", "B"}, Scenario(FALSE, TRUE, FALSE, MaxEdits, Ids, 0), NoFiles)

Next ==
    \/ \E q \in Procs, v \in Vaults, o \in OptSet : Start(q, v, [o EXCEPT !.top = v])
    \/ \E q \in Procs : ExecPlan(q)
    \/ \E q \in Procs : Save(q)
    \/ \E q \in Procs : AfterCore(q)
    \/ \E q \in Procs, name \in Vaults : CascadeNext(q, name)
    \/ \E q \in Procs : CascadeReturn(q)
    \/ \E v \in Vaults, id \in Ids, b \in BasePaths, body \in Bodies : UserCreate(v, id, b, body)
    \/ \E v \in Vaults : \E f \in files[v], body \in Bodies : UserEdit(v, f, body)
    \/ \E v \in Vaults : \E f \in files[v], b \in BasePaths : UserRename(v, f, b)
    \/ \E v \in Vaults : \E f \in files[v] : UserDelete(v, f)

Spec == Init /\ [][Next]_vars

\* runs of one vault against its peers, without cascade, with the series of
\* non-interactive runs since the last user edit recorded
NextRepeat ==
    \/ \E q \in Procs, v \in Vaults, o \in OptSet : Start(q, v, [o EXCEPT !.top = v])
    \/ \E q \in Procs : ExecPlan(q)
    \/ \E q \in Procs : Save(q)
    \/ \E q \in Procs : AfterCore(q)
    \/ \E v \in Vaults, id \in Ids, b \in BasePaths, body \in Bodies : UserCreate(v, id, b, body)
    \/ \E v \in Vaults : \E f \in files[v], body \in Bodies : UserEdit(v, f, body)
    \/ \E v \in Vaults : \E f \in files[v], b \in BasePaths : UserRename(v, f, b)
    \/ \E v \in Vaults : \E f \in files[v] : UserDelete(v, f)

SpecRepeat ==
    InitWith({"A", "B"}, Scenario(FALSE, FALSE, TRUE, MaxEdits, Ids, 0), NoFiles)
        /\ [][NextRepeat]_vars

\* three registered vaults and one note, two user edits, each followed by
\* at most MaxRuns invocations, cascading or not
SpecThree ==
    InitWith(Vaults, [Scenario(FALSE, TRUE, FALSE, 2, {"x"}, MaxRuns) EXCEPT !.gone = TRUE],
             NoFiles)
        /\ [][Next]_vars

\* a call of sync() goes on until it returns: the engine is sequential code,
\* and a conflict prompt is answered
EngineStep ==
    \E q \in Procs :
        \/ ExecPlan(q)
        \/ Save(q)
        \/ AfterCore(q)
        \/ CascadeReturn(q)
        \/ \E name \in Vaults : CascadeNext(q, name)

\* the vaults where the user has put note x, or nothing
OneIdVaults == {fl \in FilledVaults : \A v \in Vaults : \A f \in fl[v] : f.id = "x"}

\* the vaults where the user has put note x at relpath p, or nothing
OneNoteVaults ==
    {fl \in FilledVaults : \A v \in Vaults : \A f \in fl[v] : f.id = "x" /\ f.path = Base("p")}

\* the first invocation, cascading or not, over three registered vaults whose
\* notes declare one another and themselves
NextCascade ==
    \/ \E q \in Procs, v \in Vaults, o \in OptSet : Start(q, v, [o EXCEPT !.top = v])
    \/ \E q \in Procs : ExecPlan(q)
    \/ \E q \in Procs : Save(q)
    \/ \E q \in Procs : AfterCore(q)
    \/ \E q \in Procs, name \in Vaults : CascadeNext(q, name)
    \/ \E q \in Procs : CascadeReturn(q)

SpecCascadeFair ==
    InitWith(Vaults, Scenario(FALSE, TRUE, FALSE, 0, {"x"}, MaxRuns), OneNoteVaults)
        /\ [][NextCascade]_vars
        /\ WF_vars(EngineStep)

\* two registered vaults without cascade, the deletions made in sync recorded
SpecGone ==
    InitWith({"A", "B"}, [Scenario(FALSE, FALSE, FALSE, MaxEdits, Ids, 0) EXCEPT !.gone = TRUE],
             NoFiles)
        /\ [][NextRepeat]_vars

\* two registered vaults and one note, cascading runs or not, the notes kept
\* by conflict resolutions recorded
SpecKept ==
    InitWith({"A", "B"}, [Scenario(FALSE, TRUE, FALSE, MaxEdits, {"x"}, 0) EXCEPT !.keep = TRUE],
             NoFiles)
        /\ [][Next]_vars

\* the arguments of sync() with a peer_filter, or with none ({})
FilterOptSet == {[o EXCEPT !.filter = F] : o \in OptSet, F \in SUBSET Vaults}

\* the first invocation over three registered vaults, `--peer` given or not
NextFilter ==
    \/ \E q \in Procs, v \in Vaults, o \in FilterOptSet : Start(q, v, [o EXCEPT !.top = v])
    \/ \E q \in Procs : ExecPlan(q)
    \/ \E q \in Procs : Save(q)
    \/ \E q \in Procs : AfterCore(q)
    \/ \E q \in Procs, name \in Vaults : CascadeNext(q, name)
    \/ \E q \in Procs : CascadeReturn(q)

SpecFilter ==
    InitWith(Vaults, Scenario(FALSE, TRUE, FALSE, 0, {"x"}, MaxRuns), OneNoteVaults)
        /\ [][NextFilter]_vars

\* two registered vaults and one note, dry runs in scope
SpecDry ==
    InitWith({"A", "B"}, Scenario(TRUE, TRUE, FALSE, MaxEdits, {"x"}, 0), NoFiles)
        /\ [][Next]_vars

\* the vaults A and B as the user has filled them with note x
TwoVaults == {fl \in OneIdVaults : fl["C"] = {}}

\* the first runs over vaults the user has filled, three registered vaults
NextRuns ==
    \/ \E q \in Procs, v \in Vaults, o \in OptSet : Start(q, v, [o EXCEPT !.top = v])
    \/ \E q \in Procs : ExecPlan(q)
    \/ \E q \in Procs : Save(q)
    \/ \E q \in Procs : AfterCore(q)

SpecFirst ==
    InitWith(Vaults, Scenario(FALSE, FALSE, FALSE, 0, Ids, MaxRuns), FilledVaults)
        /\ [][NextRuns]_vars

\* two processes call HorizontalSync.sync on two registered vaults, two calls
\* in all, one after the other or at the same time
SpecTwo ==
    InitWith({"A", "B"},
             [Scenario(FALSE, FALSE, FALSE, 0, {"x"}, MaxRuns + 1) EXCEPT !.procs = Procs,
                                                                         !.wr = TRUE],
             TwoVaults)
        /\ [][NextRuns]_vars

\* two processes over two registered vaults and one note: each runs
\* `cast hsync` or calls HorizontalSync.sync, at most MaxRuns calls after a
\* user edit
NextCli ==
    \/ \E q \in Procs, v \in Vaults, there \in BOOLEAN : HsyncEnter(q, v, there)
    \/ \E q \in Procs : HsyncCall(q)
    \/ \E q \in Procs, v \in Vaults, o \in OptSet : Start(q, v, [o EXCEPT !.top = v])
    \/ \E q \in Procs : ExecPlan(q)
    \/ \E q \in Procs : Save(q)
    \/ \E q \in Procs : AfterCore(q)
    \/ \E q \in Procs, name \in Vaults : CascadeNext(q, name)
    \/ \E q \in Procs : CascadeReturn(q)
    \/ \E v \in Vaults, id \in Ids, b \in BasePaths, body \in Bodies : UserCreate(v, id, b, body)

SpecCli ==
    InitWith({"A", "B"},
             [Scenario(FALSE, TRUE, FALSE, 1, {"x"}, MaxRuns) EXCEPT !.procs = Procs],
             NoFiles)
        /\ [][NextCli]_vars

\* the first run over two registered vaults the user has filled, where a
\* copy, move or delete may raise
SpecFaults ==
    InitWith({"A", "B"},
             [Scenario(FALSE, FALSE, FALSE, 0, Ids, MaxRuns) EXCEPT !.ioerr = TRUE],
             {fl \in FilledVaults : fl["C"] = {}})
        /\ [][NextRuns]_vars

\* the first run over two registered vaults the user has filled, where the
\* process may be killed during a copy
NextKill ==
    \/ NextRuns
    \/ \E q \in Procs : InterruptedCopy(q)

SpecKill ==
    InitWith({"A", "B"}, Scenario(FALSE, FALSE, FALSE, 0, Ids, MaxRuns),
             {fl \in FilledVaults : fl["C"] = {}})
        /\ [][NextKill]_vars

\* note x at relpath p in the three vaults, last synchronised everywhere with
\* content agreed, and since then edited to b in B and to c in C
Diverged(agreed, b, c) ==
    /\ files = [v \in Vaults |->
                  {[path |-> Base("p"), id |-> "x",
                    body |-> IF v = "B" THEN b ELSE IF v = "C" THEN c ELSE agreed]}]
    /\ store = [v \in Vaults |->
                  [k \in Pairs |-> IF k[1] = "x" /\ k[2] # v THEN agreed ELSE 0]]
    /\ cfg = [dry |-> FALSE, casc |-> TRUE, track |-> FALSE,
              ids |-> CHOOSE io \in Orders(Ids) : TRUE, edits |-> 0, notes |-> {"x"},
              runs |-> MaxRuns + 1, gone |-> FALSE, ioerr |-> FALSE, keep |-> FALSE, wr |-> FALSE,
              edit |-> [v \in {"B", "C"} |-> IF v = "B" THEN b ELSE c]]

\* the runs that follow two different edits of one note in two peers
InitDiverged ==
    /\ registry = Vaults
    /\ casts = Installed(Vaults)
    /\ \E agreed, b, c \in 1..(MaxBody + 1) :
          /\ Cardinality({agreed, b, c}) = 3
          /\ Diverged(agreed, b, c)
    /\ pc = [q \in Procs |-> IF q = "p1" THEN "idle" ELSE "off"]
    /\ opts = [q \in Procs |-> NoOpts]
    /\ run = [q \in Procs |-> IdleRun]
    /\ stack = [q \in Procs |-> <<>>]
    /\ visited = [q \in Procs |-> {}]
    /\ last = [q \in Procs |-> NoLast]
    /\ hist = NoHist
    /\ lock = [v \in Vaults |-> ""]
    /\ cli = [q \in Procs |-> NoStatus]
    /\ calls = [q \in Procs |-> NoCalls]
    /\ rn = NoRename
    /\ fm = NoMap

SpecDiverged == InitDiverged /\ [][NextCascade]_vars

\* a front-matter map given to reorder_cast_fields
InitMap ==
    /\ InitEngine({}, Scenario(FALSE, FALSE, FALSE, 0, Ids, 0), NoFiles)
    /\ cfg.ids = CHOOSE io \in Orders(Ids) : TRUE
    /\ rn = NoRename
    /\ \E m \in Maps : fm = [on |-> TRUE, given |-> m, out |-> <<>>]

SpecMap == InitMap /\ [][Reorder]_vars

\* installs and uninstalls on a machine whose registry starts empty
NextRegistry ==
    \/ \E root \in Vaults, id \in CastIds, name \in Vaults : RegisterCast(root, id, name)
    \/ \E by \in {"cast_id", "name", "root"}, ident \in CastIds \cup Vaults :
          UnregisterCast(by, ident)

SpecRegistry ==
    InitWith({}, Scenario(FALSE, FALSE, FALSE, 0, Ids, 0), NoFiles) /\ [][NextRegistry]_vars

\* a vault, and a caller's arguments for update_links_for_renames
InitRename ==
    /\ InitEngine({}, Scenario(FALSE, FALSE, FALSE, 0, Ids, 0), NoFiles)
    /\ cfg.ids = CHOOSE io \in Orders(Ids) : TRUE
    /\ fm = NoMap
    /\ \E present \in SUBSET RenamePaths, cur \in Folders, body \in SeqsUpTo(LinkSet, MaxLinks),
          renames \in SeqsUpTo({RenameSpec(o, n) : o, n \in RenamePaths}, MaxSpecs),
          cs \in BOOLEAN :
          rn = [on |-> TRUE, present |-> present, cur |-> cur, body |-> body,
                renames |-> renames, cs |-> cs, was |-> <<>>, reports |-> <<>>,
                wrote |-> <<>>]

SpecRename == InitRename /\ [][UpdateLinks]_vars

\* the lines of the notes with front matter
FmLines == {Fence, WikiLink(<<>>, "a", FALSE), MdLink(0, <<>>, "a", TRUE)}

MaxLines == 4

\* a vault whose note may begin with front matter, and one rename at most
InitFrontMatter ==
    /\ InitEngine({}, Scenario(FALSE, FALSE, FALSE, 0, Ids, 0), NoFiles)
    /\ cfg.ids = CHOOSE io \in Orders(Ids) : TRUE
    /\ fm = NoMap
    /\ \E present \in SUBSET RenamePaths, cur \in Folders, body \in SeqsUpTo(FmLines, MaxLines),
          renames \in SeqsUpTo({RenameSpec(o, n) : o, n \in RenamePaths}, 1),
          cs \in BOOLEAN :
          rn = [on |-> TRUE, present |-> present, cur |-> cur, body |-> body,
                renames |-> renames, cs |-> cs, was |-> <<>>, reports |-> <<>>,
                wrote |-> <<>>]

SpecFrontMatter == InitFrontMatter /\ [][UpdateLinks]_vars

----------------------------------------------------------------------------
(* Properties *)

PlansOf(q) == {run[q].plans[i] : i \in 1..Len(run[q].plans)}

\* _sync_core of invocation q has just planned and executed nothing yet
JustPlanned(q) == pc[q] = "exec" /\ run[q].k = 0

\* C1: when a core run has saved its store, for every pair (cast-id, peer) on
\* which a non-conflict action succeeded in that run the root's baseline for
\* (id, peer) and the peer's baseline for (id, root) are the same digest or
\* both absent
C1_BaselineSymmetry ==
    \A q \in Procs :
        pc[q] = "ret" =>
            \A pr \in run[q].done :
                store[run[q].root][pr] = store[pr[2]][<<pr[1], run[q].root>>]

C1_Witness ==
    \E q \in Procs :
        /\ pc[q] = "ret"
        /\ \E pr \in run[q].done : store[run[q].root][pr] # 0
        /\ \E pr \in run[q].done : store[run[q].root][pr] = 0

\* C2: when a copy or move found a note with another cast-id at its intended
\* destination, that note is still there unchanged and the source was written
\* to another path
C2_NoOverwriteForeign ==
    \A q \in Procs :
        LET w == last[q].w
        IN (w.wv # "" /\ w.pre # NoFile /\ w.pre.id # w.src.id) =>
              /\ w.pre \in files[w.wv]
              /\ w.dest # w.want
              /\ [path |-> w.dest, id |-> w.src.id, body |-> w.src.body] \in files[w.wv]

C2_Witness ==
    \E q \in Procs :
        LET w == last[q].w
        IN /\ w.wv # "" /\ w.pre # NoFile /\ w.pre.id # w.src.id
           /\ last[q].op \in {"RENAME_PEER", "RENAME_LOCAL"}

\* C3: with two vaults and no user edit in between, the third of a series of
\* non-interactive runs from one vault changes no note file and no baseline
C3_FixedPointAfterTwoRuns ==
    (Quiet /\ hist.n >= 3) => ~hist.dirty

\* C4: the second of two runs in a row with no change in between executes
\* only NO_OP plans and changes no file and no baseline
C4_SecondRunNoOp ==
    (Quiet /\ hist.n >= 2) => (~hist.dirty /\ ~hist.acted)

Originating == {"PUSH", "CREATE_PEER", "DELETE_PEER", "RENAME_PEER"}

\* C5: no plan with decision PUSH, CREATE_PEER, DELETE_PEER or RENAME_PEER goes
\* to a peer that the note declares in watch mode
C5_WatchNeverOriginates ==
    \A q \in Procs :
        \A plan \in PlansOf(q) :
            plan.decision \in Originating => ModeOf(plan.cast_id, plan.peer_name) # "watch"

\* C6: while a run executes, the files of a note in the vault of a peer it
\* declares as watch do not change
C6_WatchPeerUntouched ==
    [][\A q \in Procs :
          (pc[q] = "exec" /\ run[q].plans # <<>>) =>
              \A id \in run[q].lids, n \in Vaults \ {run[q].root} :
                  ModeOf(id, n) = "watch" =>
                      NotesOf(files'[n], id) = NotesOf(files[n], id)]_vars

\* the rename-or-nothing tail of the decision table
RenameOrNoOp(plan) ==
    IF plan.local_path # plan.peer_path
    THEN (IF plan.mode = "live" THEN "RENAME_PEER" ELSE "RENAME_LOCAL")
    ELSE "NO_OP"

ThreeWay(plan) ==
    plan.pass = "main" /\ plan.peer_digest # 0 /\ plan.baseline_digest # 0

C8_PeerAbsentDecision ==
    \A q \in Procs :
        \A plan \in PlansOf(q) :
            (plan.pass = "main" /\ plan.peer_digest = 0) =>
                plan.decision =
                    IF plan.baseline_digest = 0
                    THEN (IF plan.mode = "live" THEN "CREATE_PEER" ELSE "NO_OP")
                    ELSE IF plan.local_digest = plan.baseline_digest
                    THEN "DELETE_LOCAL"
                    ELSE "CONFLICT"

C8_Witness ==
    \E q \in Procs :
        \E plan \in PlansOf(q) :
            /\ plan.pass = "main" /\ plan.peer_digest = 0
            /\ plan.baseline_digest # 0
            /\ plan.decision = "CONFLICT"

C10_DeletionPassPlans ==
    \A q \in Procs :
        JustPlanned(q) =>
            \A id \in Ids \ run[q].lids, n \in Vaults :
                (store[run[q].root][<<id, n>>] # 0 /\ Resolved(n)
                 /\ NotesOf(files[n], id) # {}) =>
                    \E plan \in PlansOf(q), f \in NotesOf(files[n], id) :
                        /\ plan.cast_id = id /\ plan.peer_name = n
                        /\ plan.decision =
                              IF Digest(f) = store[run[q].root][<<id, n>>]
                              THEN "DELETE_PEER" ELSE "CONFLICT"

\* the peers a note declares besides the vault that runs
ForeignPeers(id, v) == DeclNames(id) \ {v}

\* C11: on first contact with identical content at different relpaths the
\* plan toward a live peer is RENAME_PEER; toward a watch peer it is
\* RENAME_LOCAL when every peer the note declares is watch, and NO_OP when
\* the note declares a live peer as well.
C11_FirstContactRename ==
    \A q \in Procs : \A plan \in PlansOf(q) :
        (/\ JustPlanned(q)
         /\ plan.pass = "main"
         /\ plan.baseline_digest = 0
         /\ plan.peer_digest # 0
         /\ plan.local_digest = plan.peer_digest
         /\ plan.peer_path # plan.local_path)
        => plan.decision =
              IF plan.mode = "live" THEN "RENAME_PEER"
              ELSE IF \A n \in ForeignPeers(plan.cast_id, run[q].root) :
                         ModeOf(plan.cast_id, n) = "watch"
                   THEN "RENAME_LOCAL"
                   ELSE "NO_OP"

\* the plan q executed last was a CONFLICT resolved as res
Resolved_As(q, res) ==
    /\ pc[q] = "exec"
    /\ last[q].op = "CONFLICT"
    /\ last[q].res = res
    /\ last[q].ok

\* C12: after a CONFLICT resolved as KEEP_LOCAL, if the local file exists
\* the peer vault holds the note with the local content and both baseline
\* stores hold the local digest; if the local file is missing the peer's
\* file is gone and the pair has no baseline on either side.
C12_KeepLocal ==
    \A q \in Procs :
        Resolved_As(q, "KEEP_LOCAL") =>
            LET plan == last[q].plan
                v == run[q].root
                n == plan.peer_name
                id == plan.cast_id
            IN IF Exists(files[v], plan.local_path)
               THEN /\ \E f \in NotesOf(files[n], id) :
                          f.body = FileAt(files[v], plan.local_path).body
                    /\ run[q].mem[<<id, n>>] = Digest(FileAt(files[v], plan.local_path))
                    /\ store[n][<<id, v>>] = Digest(FileAt(files[v], plan.local_path))
               ELSE /\ ~Exists(files[n], plan.peer_path)
                    /\ run[q].mem[<<id, n>>] = 0
                    /\ store[n][<<id, v>>] = 0

\* C13: after a CONFLICT resolved as KEEP_PEER, if the peer file exists the
\* local vault holds the peer's content at the peer's relpath, with no copy
\* of the note at another local path, and both baselines hold the peer
\* digest; if the peer file is missing the local file is gone and the pair
\* has no baseline on either side.
C13_KeepPeer ==
    \A q \in Procs :
        Resolved_As(q, "KEEP_PEER") =>
            LET plan == last[q].plan
                v == run[q].root
                n == plan.peer_name
                id == plan.cast_id
                pf == FileAt(files[n], plan.peer_path)
            IN IF plan.peer_path # NoPath /\ pf # NoFile
               THEN /\ \E f \in NotesOf(files[v], id) :
                          f.path = plan.peer_path /\ f.body = pf.body
                    /\ \A f \in NotesOf(files[v], id) : f.path = plan.peer_path
                    /\ run[q].mem[<<id, n>>] = Digest(pf)
                    /\ store[n][<<id, v>>] = Digest(pf)
               ELSE /\ NotesOf(files[v], id) = {}
                    /\ run[q].mem[<<id, n>>] = 0
                    /\ store[n][<<id, v>>] = 0

\* C14: a CONFLICT plan resolved as SKIP changes no note file and no
\* baseline entry, in memory or in a store, and the run that skipped a
\* conflict returns exit code 3, also when a plan of the run raised.
C14_SkipKeepsAllAndExits3 ==
    [][\A q \in Procs :
          /\ (/\ pc[q] = "exec"
               /\ run'[q].k = run[q].k + 1
               /\ last'[q].op = "CONFLICT"
               /\ last'[q].res = "SKIP")
              => /\ files' = files
                 /\ store' = store
                 /\ run'[q].mem = run[q].mem
                 /\ run'[q].conflicts
          /\ (pc[q] = "exec" /\ pc'[q] = "ret" /\ run[q].conflicts)
              => run'[q].code = 3]_vars

\* a run that skipped a conflict and in which another plan raised returned 3
C14_Witness ==
    \E q \in Procs :
        /\ pc[q] = "ret"
        /\ run[q].conflicts
        /\ run[q].raised
        /\ run[q].code = 3

\* C15: in a non-interactive run every CONFLICT plan is resolved as
\* KEEP_LOCAL: nothing is written to the local vault, the peer vault then
\* holds the note with the local content, no conflict is recorded as
\* unresolved, and no exit code of the run is 3.
C15_NonInteractiveKeepsLocal ==
    \A q \in Procs :
        opts[q].nonint =>
            /\ ~run[q].conflicts
            /\ run[q].code # 3
            /\ \A i \in 1..Len(stack[q]) : stack[q][i].code # 3
            /\ (pc[q] = "exec" /\ last[q].op = "CONFLICT") =>
                  LET plan == last[q].plan
                      v == run[q].root
                      lf == FileAt(files[v], plan.local_path)
                  IN /\ last[q].res = "KEEP_LOCAL"
                     /\ last[q].w.wv # v
                     /\ lf # NoFile =>
                           \E f \in NotesOf(files[plan.peer_name], plan.cast_id) :
                               f.body = lf.body

\* C16: a note deleted in a vault while it was unchanged since its
\* baselines, by the user or by an executed DELETE_LOCAL / DELETE_PEER, is
\* in no later state, with runs only in between, present in that vault.
C16_NoResurrection ==
    \A g \in hist.gone : NotesOf(files[g[2]], g[1]) = {}

\* note id is in no copy in vault v
Removed(id, v) == NotesOf(files[v], id) = {}

\* neither v nor n has a baseline of note id with the other
NoBaselines(id, v, n) == store[v][<<id, n>>] = 0 /\ store[n][<<id, v>>] = 0

\* the first invocation since the user deleted note x in vault d, in sync in
\* all three vaults, was a cascading run from root, and it is over
DeletedThenCascaded(d, root) ==
    /\ Quiet
    /\ hist.r = 1
    /\ hist.first = [root |-> root, casc |-> TRUE]
    /\ <<"x", d>> \in hist.by

\* C17: note x, in sync across the three live vaults, is deleted in B and
\* one cascading run is made from A: after the run A's copy is removed, A
\* and B have no baseline for the note with each other, C's copy is removed
\* and C has no baseline for the note with A or B.
C17_DeletionCascades ==
    DeletedThenCascaded("B", "A") =>
        /\ Removed("x", "A")
        /\ NoBaselines("x", "A", "B")
        /\ Removed("x", "C")
        /\ NoBaselines("x", "C", "A")
        /\ NoBaselines("x", "C", "B")

\* the user created note x in A, all vaults and stores being empty, and the
\* one invocation made since was a cascading run from A, which is over
CreatedThenCascaded ==
    /\ Quiet
    /\ hist.e = 1
    /\ hist.made = {<<"x", "A">>}
    /\ hist.r = 1
    /\ hist.first = [root |-> "A", casc |-> TRUE]

\* C18: a note present only in A that declares the live peers B and C, with
\* no baseline anywhere: after one cascading run from A, B and C hold the
\* note at A's relpath with A's content, and every baseline of the note
\* between two of the three vaults is the digest of that content.
C18_FirstCascade ==
    CreatedThenCascaded =>
        \E f \in files["A"] :
            /\ f.id = "x"
            /\ \A v \in Vaults : NotesOf(files[v], "x") = {f}
            /\ \A v \in Vaults : \A n \in Vaults \ {v} : store[v][<<"x", n>>] = Digest(f)

C18_Witness ==
    /\ CreatedThenCascaded
    /\ NotesOf(files["B"], "x") # {}
    /\ NotesOf(files["C"], "x") # {}

\* the plan q executed last was a NO_OP with the peer record present and
\* equal digests, its baseline absent or another digest
SeedingNoOp(q) ==
    /\ pc[q] = "exec"
    /\ last[q].op = "NO_OP"
    /\ last[q].plan.peer_digest # 0
    /\ last[q].plan.local_digest = last[q].plan.peer_digest
    /\ last[q].plan.baseline_digest # last[q].plan.local_digest

\* C19: a NO_OP plan with the peer record present and local digest equal to
\* peer digest, whose baseline is absent or another digest, sets the pair's
\* baseline to that digest in the local store and in the peer's store; the
\* local store is on disk as the run holds it once the run has saved it.
C19_NoOpSeedsBaseline ==
    \A q \in Procs :
        /\ SeedingNoOp(q) =>
              LET plan == last[q].plan
              IN /\ run[q].mem[<<plan.cast_id, plan.peer_name>>] = plan.local_digest
                 /\ store[plan.peer_name][<<plan.cast_id, run[q].root>>] = plan.local_digest
        /\ pc[q] = "ret" => store[run[q].root] = run[q].mem

\* the baseline held another digest than the one both sides now have
C19_Witness ==
    \E q \in Procs :
        /\ SeedingNoOp(q)
        /\ last[q].plan.baseline_digest # 0
        /\ run[q].mem[<<last[q].plan.cast_id, last[q].plan.peer_name>>]
              = last[q].plan.local_digest

\* the plan q executed last was a rename that moved a file
Renamed(q) ==
    /\ pc[q] = "exec"
    /\ last[q].op \in {"RENAME_PEER", "RENAME_LOCAL"}
    /\ last[q].ok
    /\ last[q].w.wv # ""
    /\ last[q].w.dest # last[q].w.src.path

\* C20: once a RENAME_PEER or RENAME_LOCAL plan has moved a file, and
\* before the next plan executes, no note body in the vault of the moved
\* file has a link that resolves to the old relpath.
C20_RenameRewritesLinks ==
    \A q \in Procs :
        Renamed(q) =>
            \A f \in files[last[q].w.wv] : last[q].w.src.path \notin Links(f.body)

\* C25: the exit status of `cast hsync` is the code sync() returned, and it is
\* 2 only when the run could not start: the lock was busy or the vault or its
\* config was missing
C25_ExitStatusIsResult ==
    \A q \in Procs :
        /\ cli[q].code \notin {NoCode, 2} => cli[q].why = "result"
        /\ cli[q].code = 2 => cli[q].why \in {"busy", "novault"}

\* a core run of invocation q, the top-level one or a cascade sub-run, has
\* executed a plan that is not a NO_OP and has not saved its store yet
Mutating(q) ==
    /\ pc[q] = "exec"
    /\ run[q].k > 0
    /\ last[q].op \notin {"none", "NO_OP"}
    /\ last[q].ok

\* C21: while a core run that changes its vault is in progress, the top-level
\* one or a cascade sub-run, its process holds the lock of the run's root
C21_RunHoldsRootLock ==
    \A q \in Procs : Mutating(q) => lock[run[q].root] = q

\* C22: a step of a sync invocation that changes the notes or the stored
\* baselines of a vault is taken by a process that holds the lock of that vault
C22_WritesUnderLock ==
    [][\A v \in Vaults :
          (files'[v] # files[v] \/ store'[v] # store[v]) =>
              \/ Quiet /\ Quiet'
              \/ \E q \in Procs : (pc[q] \notin {"idle", "off"} \/ pc'[q] \notin {"idle", "off"})
                                      /\ lock[v] = q]_vars

\* no root occurs twice among the core runs of invocation q
CoreOncePerRoot(q) ==
    \A i, j \in 1..Len(calls[q].cores) : calls[q].cores[i] = calls[q].cores[j] => i = j

\* C23: in the peer graph where every note declares all three vaults, itself
\* included, an invocation never runs the core twice for one root, and every
\* invocation that has started returns
C23_CascadeTerminatesOncePerRoot ==
    /\ [](\A q \in Procs : CoreOncePerRoot(q))
    /\ \A q \in Procs : (pc[q] \notin {"idle", "off"}) ~> (pc[q] = "idle")

\* the cascade is three calls deep and has skipped every peer of the third
\* root as visited
C23_Witness ==
    \E q \in Procs :
        /\ pc[q] = "casc"
        /\ Len(stack[q]) = 3
        /\ stack[q][3].left = {}
        /\ visited[q] = Vaults
        /\ Len(calls[q].cores) = 3

\* the place of an exit code in the ordering 0 < 1 < 3 < 2
OrdRank(c) == IF c = 0 THEN 0 ELSE IF c = 1 THEN 1 ELSE IF c = 3 THEN 2 ELSE 3

MaxOrd(S) == CHOOSE c \in S : \A d \in S : OrdRank(d) <= OrdRank(c)

\* C24: when sync() has returned, its code is the greatest, under
\* 0 < 1 < 3 < 2, of the codes of the core runs of the invocation
C24_ExitCodeIsMaximum ==
    \A q \in Procs :
        (calls[q].result # NoCode /\ calls[q].codes # {}) =>
            calls[q].result = MaxOrd(calls[q].codes)

\* a cascading invocation has returned after core runs with different codes,
\* the greatest of which came from a sub-run
C24_Witness ==
    \E q \in Procs :
        /\ calls[q].result # NoCode
        /\ Len(calls[q].cores) > 1
        /\ Cardinality(calls[q].codes) > 1
        /\ calls[q].result > 0

\* the step executes a plan of run q whose copy, move or delete raises
PlanFails(q) ==
    /\ pc[q] = "exec"
    /\ run'[q].k = run[q].k + 1
    /\ ~last'[q].ok

\* C26: when the copy, move or delete of a plan raises, the run goes on with
\* the plans after it, in their order; no baseline entry of the plan's pair
\* changes, in memory, in the root's store or in the peer's store; and the run
\* returns 1, or 3 if it skipped a conflict
C26_ErrorContinues ==
    [][\A q \in Procs :
          /\ PlanFails(q) =>
                LET plan == Head(run[q].plans)
                    v == run[q].root
                IN /\ pc'[q] = "exec"
                   /\ run'[q].plans = Tail(run[q].plans)
                   /\ run'[q].mem[<<plan.cast_id, plan.peer_name>>]
                         = run[q].mem[<<plan.cast_id, plan.peer_name>>]
                   /\ store'[v] = store[v]
                   /\ store'[plan.peer_name] = store[plan.peer_name]
                   /\ files' = files
          /\ (pc[q] = "exec" /\ pc'[q] = "ret" /\ run[q].raised)
                => run'[q].code = IF run[q].conflicts THEN 3 ELSE 1]_vars

\* a plan raised and a later plan of the same run has written a note
C26_Witness ==
    \E q \in Procs :
        /\ pc[q] = "exec"
        /\ run[q].raised
        /\ last[q].ok
        /\ last[q].w.wv # ""

\* C27: when a plan of a run has been executed and the next has not started,
\* the root's store on disk holds the baseline entry the plan set for its
\* pair, and it agrees with the entry in the peer's store
C27_BaselinePersistedPerPlan ==
    \A q \in Procs :
        (pc[q] = "exec" /\ last[q].op # "none" /\ last[q].ok) =>
            LET v == run[q].root
                pr == <<last[q].id, last[q].peer>>
            IN /\ store[v][pr] = run[q].mem[pr]
               /\ store[v][pr] = store[last[q].peer][<<last[q].id, v>>]

\* C28: the registry has one entry for a cast-id at most, no two of its
\* entries have the same cast-name, and registering a root under a cast-name
\* leaves no other entry with that name
C28_RegistryUnique ==
    /\ [](\A c, d \in Listed(casts) : casts[c].name = casts[d].name => c = d)
    /\ [][\A c \in CastIds :
             (casts'[c] # casts[c] /\ casts'[c] # NoEntry) =>
                 \A d \in Listed(casts') \ {c} : casts'[d].name # casts'[c].name]_vars

\* C29: a second call of update_links_for_renames with the same specs, directly
\* after a first one, reports no changed file and no replacement and leaves
\* the note as it was
C29_RewriterIdempotent ==
    Len(rn.reports) = 2 => rn.reports[2] = Report(0, 0) /\ rn.body = rn.was[2]

\* a call with the one spec (new, old), the file at new existing
SwappedCall ==
    /\ Len(rn.reports) >= 1
    /\ Len(rn.renames) = 1
    /\ ExistsAny(rn.present, rn.renames[1].old)

\* what the call with (old, new) gives on the vault as it was
Straight ==
    UpdateLinksForRenames(rn.present, rn.cur, rn.was[1],
                          <<RenameSpec(rn.renames[1].new, rn.renames[1].old)>>, rn.cs)

\* C30: with the file at new existing, the call with the swapped spec
\* (new, old) leaves the same note and returns the same report as the call
\* with (old, new)
C30_SwappedSpecSame ==
    SwappedCall =>
        rn.reports[1] = Straight.report /\ (IF Len(rn.was) = 1 THEN rn.body ELSE rn.was[2]) = Straight.body

\* C30, amended: with the file at new existing and no file at old, the call
\* with the swapped spec (new, old) leaves the same note and returns the same
\* report as the call with (old, new)
C30_SwappedSpecSameOldGone ==
    SwappedCall /\ ~ExistsAny(rn.present, rn.renames[1].new) =>
        /\ rn.reports[1] = Straight.report
        /\ (IF Len(rn.was) = 1 THEN rn.body ELSE rn.was[2]) = Straight.body

\* the swapped spec was given after the move, and the call rewrote a link
C30_Witness ==
    /\ SwappedCall
    /\ ~ExistsAny(rn.present, rn.renames[1].new)
    /\ Len(rn.reports) = 1
    /\ rn.reports[1].total_replacements = 1
    /\ rn.body # rn.was[1]

\* the number of lines of the front-matter block of a text (FM_RE of
\* yamlio.py): 0 when the text has none
HeaderLen(text) ==
    IF text # <<>> /\ text[1] = Fence /\ \E j \in 3..Len(text) : text[j] = Fence
    THEN CHOOSE j \in 3..Len(text) :
             text[j] = Fence /\ \A k \in 3..(j - 1) : text[k] # Fence
    ELSE 0

\* a link of the body of the text that is a link to the old path of a spec
HasMatchingLink(text) ==
    \E i \in (HeaderLen(text) + 1)..Len(text) :
        \E k \in DOMAIN PrepareSpecs(rn.present, rn.renames, rn.cs, TRUE) :
            LET spec == PrepareSpecs(rn.present, rn.renames, rn.cs, TRUE)[k]
            IN  WikiChange(text[i], spec, rn.cs) \/ MdMatch(text[i], spec, rn.cur, rn.cs)

\* the note after the i-th call
After(i) == IF i = Len(rn.was) THEN rn.body ELSE rn.was[i + 1]

Waiting(q) == {stack[q][i].root : i \in DOMAIN stack[q]}

\* C32: with notes that list the running vault's own name, no plan of a run
\* names the running vault as its peer, no baseline pairs a vault with
\* itself, and the cascade starts no run in a vault whose own sync() call is
\* still under way
C32_SelfPeerSkipped ==
    /\ \A q \in Procs :
          /\ \A i \in DOMAIN run[q].plans : run[q].plans[i].peer_name # run[q].root
          /\ last[q].plan.mode # "none" /\ run[q].root # "" =>
                last[q].plan.peer_name # run[q].root
          /\ run[q].root \notin Waiting(q)
          /\ \A i, j \in DOMAIN stack[q] : stack[q][i].root = stack[q][j].root => i = j
    /\ \A v \in Vaults, id \in Ids : store[v][<<id, v>>] = 0

\* a cascade sub-run with plans, for notes that list the vault itself
C32_Witness ==
    \E q \in Procs :
        /\ pc[q] = "exec"
        /\ stack[q] # <<>>
        /\ run[q].plans # <<>>
        /\ \A f \in files[run[q].root] : run[q].root \in DeclNames(f.id)
        /\ files[run[q].root] # {}

\* d is the first path that does not exist in fs of the sequence base,
\* "<stem> <suffix><ext>", "<stem> <suffix> 2<ext>", ...
FirstFree(fs, base, prov, d) ==
    /\ ~Exists(fs, d)
    /\ \/ d = base
       \/ /\ Exists(fs, base)
          /\ \E k \in 1..(Cardinality(fs) + 1) :
                /\ d = Suffixed(base, prov, k)
                /\ \A j \in 1..(k - 1) : Exists(fs, Suffixed(base, prov, j))

\* the paths that exist in some vault
PathsInUse == {f.path : f \in UNION {files[v] : v \in Vaults}}

\* C33: for the files of every vault, every base path and every suffix,
\* _safe_dest returns the first path of the sequence that does not exist; and
\* a file the engine writes beside its wanted path lands on that path
C33_SafeDestFirstFree ==
    /\ [](\A v \in Vaults, base \in PathsInUse \cup {Base(b) : b \in BasePaths} :
            \A i \in DOMAIN ProvSeq :
                FirstFree(files[v], base, ProvSeq[i], SafeDest(files[v], base, ProvSeq[i])))
    /\ [][\A q \in Procs :
             (last'[q] # last[q] /\ last'[q].w.wv # "" /\ last'[q].w.dest # last'[q].w.want) =>
                 \E i \in DOMAIN ProvSeq :
                     FirstFree(files[last'[q].w.wv], last'[q].w.want, ProvSeq[i],
                               last'[q].w.dest)]_vars

\* a file was written to "<stem> <suffix> 2<ext>": the wanted path and its
\* first suffixed variant were both taken
C33_Witness ==
    \E q \in Procs :
        /\ last[q].w.wv # ""
        /\ \E i \in DOMAIN ProvSeq :
              /\ last[q].w.dest = Suffixed(last[q].w.want, ProvSeq[i], 2)
              /\ Exists(files[last[q].w.wv], Suffixed(last[q].w.want, ProvSeq[i], 1))
        /\ Exists(files[last[q].w.wv], last[q].w.want)
        /\ Exists(files[last[q].w.wv], last[q].w.dest)

\* C34: every write is atomic, so that at any moment, an interruption
\* included, every note file holds a complete content: the one it had or the
\* one written to it
C34_WritesAtomic ==
    \A v \in Vaults : \A f \in files[v] : f.body \in Bodies

\* the place of a key in the order last-updated, cast-id, cast-vaults,
\* cast-codebases, cast-version, then the rest
Place(key) ==
    IF key = "last-updated" THEN 0
    ELSE IF \E i \in DOMAIN CAST_FIELDS_ORDER : CAST_FIELDS_ORDER[i] = key
         THEN CHOOSE i \in DOMAIN CAST_FIELDS_ORDER : CAST_FIELDS_ORDER[i] = key
         ELSE 5

PairsOf(m) == {m[i] : i \in DOMAIN m}

\* C35: reorder_cast_fields returns the key/value pairs of its input, none
\* added and none dropped, with last-updated first, then cast-id, cast-vaults,
\* cast-codebases, cast-version, then the remaining keys; applied twice it
\* gives what it gives applied once
C35_ReorderKeepsPairs ==
    /\ Len(fm.out) >= 1 =>
          /\ PairsOf(fm.out[1]) = PairsOf(fm.given)
          /\ Len(fm.out[1]) = Len(fm.given)
          /\ \A i, j \in DOMAIN fm.out[1] :
                i < j => Place(fm.out[1][i].key) <= Place(fm.out[1][j].key)
    /\ Len(fm.out) >= 2 => fm.out[2] = fm.out[1]

\* the step executed a plan of q with one of the decisions ds
Executed(q, ds) ==
    /\ pc[q] = "exec"
    /\ run[q].plans # <<>>
    /\ run'[q].plans = Tail(run[q].plans)
    /\ Head(run[q].plans).decision \in ds

\* the note x of vault v holds content d
Holds(fl, v, d) == \E f \in NotesOf(fl[v], "x") : f.body = d

\* C36: a note unchanged locally (A) since its baselines and edited to two
\* different contents in its live peers B and C: over a run from A and the
\* runs that follow, no PULL and no PUSH replaces the edited content of B or
\* of C
C36_EditsOnlyMeetInConflict ==
    [][\A q \in Procs : \A v \in {"B", "C"} :
          (hist.first.root = "A" /\ Executed(q, {"PULL", "PUSH"}) /\ Holds(files, v, cfg.edit[v]))
              => Holds(files', v, cfg.edit[v])]_vars

\* C37: a note kept by a CONFLICT resolved as KEEP_LOCAL is in the local vault
\* with the kept content after every later run, cascade sub-runs included,
\* as long as the user edits nothing
C37_KeptNoteStays ==
    \A k \in hist.kept : \E f \in NotesOf(files[k[2]], k[1]) : f.body = k[3]

\* both calls are over, one made from A and one from B
BothRan ==
    /\ Quiet
    /\ calls["p1"].cores = <<"A">>
    /\ calls["p2"].cores = <<"B">>

\* C38: two runs started from the peers A and B, at the same time or not: when
\* both have finished, every baseline entry either run wrote is in its store
\* as it was last written, and the baselines between A and B are symmetric
C38_NoBaselineUpdateLost ==
    BothRan =>
        /\ \A v \in {"A", "B"} : store[v] = hist.wr[v]
        /\ \A id \in Ids : store["A"][<<id, "B">>] = store["B"][<<id, "A">>]

\* C39: a step of an invocation made with dry_run, the local run or a cascade
\* sub-run, changes no note file of any vault and no baseline entry of any
\* syncstate.json
C39_DryRunWritesNothing ==
    [][(\E q \in Procs : opts[q].dry \/ opts'[q].dry) => (files' = files /\ store' = store)]_vars

\* the arguments of the invocation of q the step belongs to
Invoked(q) == IF pc[q] = "idle" THEN opts'[q] ELSE opts[q]

\* C40: a step of an invocation made with a peer_filter F from the vault top,
\* cascade sub-runs included, changes no note file and no baseline store of
\* a vault that is neither in F nor top
C40_FilterBoundsWrites ==
    [][\A q \in Procs :
          Invoked(q).filter # {} =>
              \A u \in Vaults \ (Invoked(q).filter \cup {Invoked(q).top}) :
                  files'[u] = files[u] /\ store'[u] = store[u]]_vars

====
